---- MODULE Spec2Model ----
(***************************************************************************)
(* A model of the mitre-mcp ATT&CK data store: the STIX parser             *)
(* (src/data/parser.ts), the in-memory index store (AttackDataStore in     *)
(* src/data/index.ts) and the operations that load it.                     *)
(*                                                                         *)
(* Strings that the code case-folds, splits or searches are modelled as    *)
(* sequences of one-character strings, so that toUpperCase, toLowerCase,   *)
(* includes and split are computed character by character.  Strings that   *)
(* the code only compares for equality (object types, STIX ids,            *)
(* relationship types) are TLA+ strings.                                   *)
(***************************************************************************)
EXTENDS Integers, Sequences, FiniteSets, TLC

(***************************************************************************)
(* JavaScript values that are not strings.                                 *)
(***************************************************************************)
Undefined == <<"<undefined>">>
Null == <<"<null>">>

IsString(v) == v # Undefined /\ v # Null

(***************************************************************************)
(* String.prototype.toUpperCase / toLowerCase, per character.              *)
(***************************************************************************)
UpperChar(c) ==
       CASE c = "a" -> "A"
         [] c = "b" -> "B"
         [] c = "c" -> "C"
         [] c = "d" -> "D"
         [] c = "e" -> "E"
         [] c = "f" -> "F"
         [] c = "g" -> "G"
         [] c = "h" -> "H"
         [] c = "i" -> "I"
         [] c = "j" -> "J"
         [] c = "k" -> "K"
         [] c = "l" -> "L"
         [] c = "m" -> "M"
         [] c = "n" -> "N"
         [] c = "o" -> "O"
         [] c = "p" -> "P"
         [] c = "q" -> "Q"
         [] c = "r" -> "R"
         [] c = "s" -> "S"
         [] c = "t" -> "T"
         [] c = "u" -> "U"
         [] c = "v" -> "V"
         [] c = "w" -> "W"
         [] c = "x" -> "X"
         [] c = "y" -> "Y"
         [] c = "z" -> "Z"
         [] OTHER -> c

LowerChar(c) ==
       CASE c = "A" -> "a"
         [] c = "B" -> "b"
         [] c = "C" -> "c"
         [] c = "D" -> "d"
         [] c = "E" -> "e"
         [] c = "F" -> "f"
         [] c = "G" -> "g"
         [] c = "H" -> "h"
         [] c = "I" -> "i"
         [] c = "J" -> "j"
         [] c = "K" -> "k"
         [] c = "L" -> "l"
         [] c = "M" -> "m"
         [] c = "N" -> "n"
         [] c = "O" -> "o"
         [] c = "P" -> "p"
         [] c = "Q" -> "q"
         [] c = "R" -> "r"
         [] c = "S" -> "s"
         [] c = "T" -> "t"
         [] c = "U" -> "u"
         [] c = "V" -> "v"
         [] c = "W" -> "w"
         [] c = "X" -> "x"
         [] c = "Y" -> "y"
         [] c = "Z" -> "z"
         [] OTHER -> c

toUpperCase(s) == [i \in 1..Len(s) |-> UpperChar(s[i])]

toLowerCase(s) == [i \in 1..Len(s) |-> LowerChar(s[i])]

(***************************************************************************)
(* String.prototype.includes: sub occurs in s as a contiguous substring.   *)
(***************************************************************************)
includes(s, sub) ==
    \E i \in 0..(Len(s) - Len(sub)) :
        \A j \in 1..Len(sub) : s[i + j] = sub[j]

(***************************************************************************)
(* id.split(".")[0]: the part of s before its first "." (all of s when it  *)
(* has none).                                                              *)
(***************************************************************************)
splitDotFirst(s) ==
    IF \E i \in 1..Len(s) : s[i] = "."
    THEN LET first == CHOOSE i \in 1..Len(s) :
                          s[i] = "." /\ \A j \in 1..(i - 1) : s[j] # "."
         IN  SubSeq(s, 1, first - 1)
    ELSE s

(***************************************************************************)
(* Sequence helpers: Array.prototype.filter/map are SelectSeq and a        *)
(* function over the index set.                                            *)
(***************************************************************************)
Range(seq) == {seq[i] : i \in 1..Len(seq)}

(***************************************************************************)
(* A JavaScript Map: a sequence of entries in insertion order.  Map.set on *)
(* an existing key replaces the value and keeps the entry's position.      *)
(***************************************************************************)
EmptyMap == <<>>

MapHas(m, k) == \E i \in 1..Len(m) : m[i].key = k

\* Map.set that moves a key already held to the end
MapSet_MovesToEnd(m, k, v) ==
    LET Other(e) == e.key # k
    IN  Append(SelectSeq(m, Other), [key |-> k, value |-> v])

\* Map.set: a key already held keeps its place and takes the new value
MapSet(m, k, v) ==
    IF MapHas(m, k)
    THEN [i \in 1..Len(m) |-> IF m[i].key = k THEN [key |-> k, value |-> v] ELSE m[i]]
    ELSE Append(m, [key |-> k, value |-> v])

\* Map.get: <<>> for undefined, <<v>> for a hit.
MapGet(m, k) ==
    IF MapHas(m, k)
    THEN <<m[CHOOSE i \in 1..Len(m) : m[i].key = k].value>>
    ELSE <<>>

\* Array.from(m.values())
MapValues(m) == [i \in 1..Len(m) |-> m[i].value]

(***************************************************************************)
(* ENTERPRISE_TACTIC_ORDER (types.ts): <<n>> when the short name is in the *)
(* table, <<>> when it is not.                                             *)
(***************************************************************************)
ENTERPRISE_TACTIC_ORDER(s) ==
       CASE s = <<"r", "e", "c", "o", "n", "n", "a", "i", "s", "s", "a", "n", "c", "e">> -> <<0>>
         [] s = <<"r", "e", "s", "o", "u", "r", "c", "e", "-", "d", "e", "v", "e", "l", "o", "p", "m", "e", "n", "t">> -> <<1>>
         [] s = <<"i", "n", "i", "t", "i", "a", "l", "-", "a", "c", "c", "e", "s", "s">> -> <<2>>
         [] s = <<"e", "x", "e", "c", "u", "t", "i", "o", "n">> -> <<3>>
         [] s = <<"p", "e", "r", "s", "i", "s", "t", "e", "n", "c", "e">> -> <<4>>
         [] s = <<"p", "r", "i", "v", "i", "l", "e", "g", "e", "-", "e", "s", "c", "a", "l", "a", "t", "i", "o", "n">> -> <<5>>
         [] s = <<"d", "e", "f", "e", "n", "s", "e", "-", "e", "v", "a", "s", "i", "o", "n">> -> <<6>>
         [] s = <<"c", "r", "e", "d", "e", "n", "t", "i", "a", "l", "-", "a", "c", "c", "e", "s", "s">> -> <<7>>
         [] s = <<"d", "i", "s", "c", "o", "v", "e", "r", "y">> -> <<8>>
         [] s = <<"l", "a", "t", "e", "r", "a", "l", "-", "m", "o", "v", "e", "m", "e", "n", "t">> -> <<9>>
         [] s = <<"c", "o", "l", "l", "e", "c", "t", "i", "o", "n">> -> <<10>>
         [] s = <<"c", "o", "m", "m", "a", "n", "d", "-", "a", "n", "d", "-", "c", "o", "n", "t", "r", "o", "l">> -> <<11>>
         [] s = <<"e", "x", "f", "i", "l", "t", "r", "a", "t", "i", "o", "n">> -> <<12>>
         [] s = <<"i", "m", "p", "a", "c", "t">> -> <<13>>
         [] OTHER -> <<>>

UnknownTacticOrder == 99

AttackMarker == <<"a", "t", "t", "a", "c", "k">>

(***************************************************************************)
(* Raw STIX objects are records that carry only the fields present in the  *)
(* JSON; a field that is absent reads as undefined.                        *)
(***************************************************************************)
Has(o, f) == f \in DOMAIN o

\* o.f || ""   and   o.f || []
StrOr(o, f) == IF Has(o, f) THEN o[f] ELSE <<>>

ArrOr(o, f) == IF Has(o, f) THEN o[f] ELSE <<>>

\* o.f === true
IsTrue(o, f) == Has(o, f) /\ o[f] = TRUE

\* a reference field copied as is (STIX ids are compared for equality only)
RefOf(o, f) == IF Has(o, f) THEN o[f] ELSE "<undefined>"

\* obj.type === ty && !!obj.name
IsNamed(o, ty) == o.type = ty /\ StrOr(o, "name") # <<>>

(***************************************************************************)
(* parser.ts                                                               *)
(***************************************************************************)
getExternalId(refs) ==
    LET IsMitre(r) == r.source_name = "mitre-attack"
        hits == SelectSeq(refs, IsMitre)
    IN  IF hits = <<>> THEN <<>> ELSE StrOr(hits[1], "external_id")

\* kc.kill_chain_name.includes("attack") raises a TypeError when the phase
\* has no kill_chain_name.
PhaseThrows(kc) == ~Has(kc, "kill_chain_name")

AttackPatterns(bundle) ==
    LET Keep(o) == IsNamed(o, "attack-pattern")
    IN  SelectSeq(bundle.objects, Keep)

parseTechniqueThrows(bundle) ==
    \E ap \in Range(AttackPatterns(bundle)) :
        \E kc \in Range(ArrOr(ap, "kill_chain_phases")) : PhaseThrows(kc)

parseTechnique(ap) ==
    LET id == getExternalId(ArrOr(ap, "external_references"))
        InAttack(kc) == includes(kc.kill_chain_name, AttackMarker)
        phases == SelectSeq(ArrOr(ap, "kill_chain_phases"), InAttack)
        isSubtechnique == IsTrue(ap, "x_mitre_is_subtechnique") \/ includes(id, <<".">>)
    IN  [id |-> id,
         stixId |-> ap.id,
         name |-> StrOr(ap, "name"),
         description |-> StrOr(ap, "description"),
         tactics |-> [i \in 1..Len(phases) |-> phases[i].phase_name],
         platforms |-> ArrOr(ap, "x_mitre_platforms"),
         dataSources |-> ArrOr(ap, "x_mitre_data_sources"),
         isSubtechnique |-> isSubtechnique,
         parentId |-> IF isSubtechnique THEN splitDotFirst(id) ELSE Null,
         deprecated |-> IsTrue(ap, "x_mitre_deprecated"),
         revoked |-> IsTrue(ap, "revoked")]

parseTechniques(bundle) ==
    LET aps == AttackPatterns(bundle)
    IN  [i \in 1..Len(aps) |-> parseTechnique(aps[i])]

\* Array.prototype.sort((a, b) => a.order - b.order): a stable sort.
RECURSIVE InsertByOrder(_, _)
InsertByOrder(sorted, t) ==
    IF sorted = <<>> THEN <<t>>
    ELSE IF Head(sorted).order <= t.order
         THEN <<Head(sorted)>> \o InsertByOrder(Tail(sorted), t)
         ELSE <<t>> \o sorted

RECURSIVE SortByOrder(_)
SortByOrder(seq) ==
    IF seq = <<>> THEN <<>>
    ELSE InsertByOrder(SortByOrder(SubSeq(seq, 1, Len(seq) - 1)), seq[Len(seq)])

parseTactic(t) ==
    LET shortName == StrOr(t, "x_mitre_shortname")
        ord == ENTERPRISE_TACTIC_ORDER(shortName)
    IN  [id |-> getExternalId(ArrOr(t, "external_references")),
         stixId |-> t.id,
         name |-> StrOr(t, "name"),
         shortName |-> shortName,
         description |-> StrOr(t, "description"),
         order |-> IF ord = <<>> THEN UnknownTacticOrder ELSE ord[1]]

parseTactics(bundle) ==
    LET Keep(o) == IsNamed(o, "x-mitre-tactic")
        raw == SelectSeq(bundle.objects, Keep)
    IN  SortByOrder([i \in 1..Len(raw) |-> parseTactic(raw[i])])

parseGroup(g) ==
    [id |-> getExternalId(ArrOr(g, "external_references")),
     stixId |-> g.id,
     name |-> StrOr(g, "name"),
     aliases |-> ArrOr(g, "aliases"),
     description |-> StrOr(g, "description"),
     deprecated |-> IsTrue(g, "x_mitre_deprecated"),
     revoked |-> IsTrue(g, "revoked")]

parseGroups(bundle) ==
    LET Keep(o) == IsNamed(o, "intrusion-set")
        raw == SelectSeq(bundle.objects, Keep)
    IN  [i \in 1..Len(raw) |-> parseGroup(raw[i])]

parseSoftwareObject(m, ty) ==
    [id |-> getExternalId(ArrOr(m, "external_references")),
     stixId |-> m.id,
     name |-> StrOr(m, "name"),
     type |-> ty,
     aliases |-> ArrOr(m, "aliases"),
     description |-> StrOr(m, "description"),
     platforms |-> ArrOr(m, "x_mitre_platforms"),
     deprecated |-> IsTrue(m, "x_mitre_deprecated"),
     revoked |-> IsTrue(m, "revoked")]

\* all malware of the bundle first, then all tools
parseSoftware(bundle) ==
    LET IsMalware(o) == IsNamed(o, "malware")
        IsTool(o) == IsNamed(o, "tool")
        malware == SelectSeq(bundle.objects, IsMalware)
        tools == SelectSeq(bundle.objects, IsTool)
    IN  [i \in 1..Len(malware) |-> parseSoftwareObject(malware[i], "malware")]
        \o [i \in 1..Len(tools) |-> parseSoftwareObject(tools[i], "tool")]

parseMitigation(c) ==
    [id |-> getExternalId(ArrOr(c, "external_references")),
     stixId |-> c.id,
     name |-> StrOr(c, "name"),
     description |-> StrOr(c, "description"),
     deprecated |-> IsTrue(c, "x_mitre_deprecated"),
     revoked |-> IsTrue(c, "revoked")]

parseMitigations(bundle) ==
    LET Keep(o) == IsNamed(o, "course-of-action")
        raw == SelectSeq(bundle.objects, Keep)
    IN  [i \in 1..Len(raw) |-> parseMitigation(raw[i])]

parseDataSource(ds) ==
    [id |-> getExternalId(ArrOr(ds, "external_references")),
     stixId |-> ds.id,
     name |-> StrOr(ds, "name"),
     description |-> StrOr(ds, "description"),
     platforms |-> ArrOr(ds, "x_mitre_platforms")]

parseDataSources(bundle) ==
    LET Keep(o) == IsNamed(o, "x-mitre-data-source")
        raw == SelectSeq(bundle.objects, Keep)
    IN  [i \in 1..Len(raw) |-> parseDataSource(raw[i])]

parseDataComponent(dc) ==
    [id |-> dc.id,
     stixId |-> dc.id,
     name |-> StrOr(dc, "name"),
     description |-> StrOr(dc, "description"),
     dataSourceId |-> IF Has(dc, "x_mitre_data_source_ref")
                      THEN dc.x_mitre_data_source_ref ELSE ""]

parseDataComponents(bundle) ==
    LET Keep(o) == IsNamed(o, "x-mitre-data-component")
        raw == SelectSeq(bundle.objects, Keep)
    IN  [i \in 1..Len(raw) |-> parseDataComponent(raw[i])]

parseRelationship(r) ==
    [sourceRef |-> RefOf(r, "source_ref"),
     targetRef |-> RefOf(r, "target_ref"),
     relationshipType |-> RefOf(r, "relationship_type"),
     description |-> StrOr(r, "description")]

\* parseRelationships without the test of revoked
parseRelationships_KeepRevoked(bundle) ==
    LET Keep(o) == o.type = "relationship" /\ ~IsTrue(o, "x_mitre_deprecated")
        raw == SelectSeq(bundle.objects, Keep)
    IN  [i \in 1..Len(raw) |-> parseRelationship(raw[i])]

\* !r.x_mitre_deprecated && !r.revoked
parseRelationships(bundle) ==
    LET Keep(o) == /\ o.type = "relationship"
                   /\ ~IsTrue(o, "x_mitre_deprecated")
                   /\ ~IsTrue(o, "revoked")
        raw == SelectSeq(bundle.objects, Keep)
    IN  [i \in 1..Len(raw) |-> parseRelationship(raw[i])]

(***************************************************************************)
(* AttackDataStore (data/index.ts): the index maps, the two lists.         *)
(***************************************************************************)
EmptyStore ==
    [techniques |-> EmptyMap,
     techniquesByStixId |-> EmptyMap,
     tactics |-> EmptyMap,
     tacticsByShortName |-> EmptyMap,
     groups |-> EmptyMap,
     groupsByStixId |-> EmptyMap,
     groupsByName |-> EmptyMap,
     software |-> EmptyMap,
     softwareByStixId |-> EmptyMap,
     softwareByName |-> EmptyMap,
     mitigations |-> EmptyMap,
     mitigationsByStixId |-> EmptyMap,
     dataSources |-> EmptyMap,
     dataSourcesByStixId |-> EmptyMap,
     dataSourcesByName |-> EmptyMap,
     dataComponents |-> <<>>,
     relationships |-> <<>>]

\* the key a technique is stored under in this.techniques
TechniqueKey(t) == t.id

RECURSIVE IndexTechniques(_, _)
IndexTechniques(s, ts) ==
    IF ts = <<>> THEN s
    ELSE LET t == Head(ts)
         IN  IndexTechniques(
                 [s EXCEPT !.techniques = MapSet(@, TechniqueKey(t), t),
                           !.techniquesByStixId = MapSet(@, t.stixId, t)],
                 Tail(ts))

RECURSIVE IndexTactics(_, _)
IndexTactics(s, ts) ==
    IF ts = <<>> THEN s
    ELSE LET t == Head(ts)
         IN  IndexTactics(
                 [s EXCEPT !.tactics = MapSet(@, t.id, t),
                           !.tacticsByShortName = MapSet(@, t.shortName, t)],
                 Tail(ts))

(***************************************************************************)
(* for (const alias of e.aliases) byName.set(alias.toLowerCase(), e):      *)
(* an alias that is not a string raises a TypeError; the aliases before it *)
(* have been set.                                                          *)
(***************************************************************************)
\* IndexAliases with each alias as key in the casing it was given
RECURSIVE IndexAliases_AsGiven(_, _, _)
IndexAliases_AsGiven(byName, aliases, e) ==
    IF aliases = <<>> THEN [map |-> byName, threw |-> FALSE]
    ELSE IF ~IsString(Head(aliases)) THEN [map |-> byName, threw |-> TRUE]
    ELSE IndexAliases_AsGiven(MapSet(byName, Head(aliases), e), Tail(aliases), e)

RECURSIVE IndexAliases(_, _, _)
IndexAliases(byName, aliases, e) ==
    IF aliases = <<>> THEN [map |-> byName, threw |-> FALSE]
    ELSE IF ~IsString(Head(aliases)) THEN [map |-> byName, threw |-> TRUE]
    ELSE IndexAliases(MapSet(byName, toLowerCase(Head(aliases)), e), Tail(aliases), e)

\* IndexGroups that merges the aliases of a group it already holds into the
\* incoming group instead of replacing it
RECURSIVE IndexGroups_MergeAliases(_, _)
IndexGroups_MergeAliases(s, gs) ==
    IF gs = <<>> THEN [store |-> s, threw |-> FALSE]
    ELSE LET prev == MapGet(s.groups, Head(gs).id)
             g == IF prev = <<>> THEN Head(gs)
                  ELSE [Head(gs) EXCEPT !.aliases = prev[1].aliases \o @]
             al == IndexAliases(MapSet(s.groupsByName, toLowerCase(g.name), g),
                                g.aliases, g)
             s1 == [s EXCEPT !.groups = MapSet(@, g.id, g),
                             !.groupsByStixId = MapSet(@, g.stixId, g),
                             !.groupsByName = al.map]
         IN  IF al.threw THEN [store |-> s1, threw |-> TRUE]
             ELSE IndexGroups_MergeAliases(s1, Tail(gs))

RECURSIVE IndexGroups(_, _)
IndexGroups(s, gs) ==
    IF gs = <<>> THEN [store |-> s, threw |-> FALSE]
    ELSE LET g == Head(gs)
             al == IndexAliases(MapSet(s.groupsByName, toLowerCase(g.name), g),
                                g.aliases, g)
             s1 == [s EXCEPT !.groups = MapSet(@, g.id, g),
                             !.groupsByStixId = MapSet(@, g.stixId, g),
                             !.groupsByName = al.map]
         IN  IF al.threw THEN [store |-> s1, threw |-> TRUE]
             ELSE IndexGroups(s1, Tail(gs))

RECURSIVE IndexSoftware(_, _)
IndexSoftware(s, sws) ==
    IF sws = <<>> THEN [store |-> s, threw |-> FALSE]
    ELSE LET sw == Head(sws)
             al == IndexAliases(MapSet(s.softwareByName, toLowerCase(sw.name), sw),
                                sw.aliases, sw)
             s1 == [s EXCEPT !.software = MapSet(@, sw.id, sw),
                             !.softwareByStixId = MapSet(@, sw.stixId, sw),
                             !.softwareByName = al.map]
         IN  IF al.threw THEN [store |-> s1, threw |-> TRUE]
             ELSE IndexSoftware(s1, Tail(sws))

RECURSIVE IndexMitigations(_, _)
IndexMitigations(s, ms) ==
    IF ms = <<>> THEN s
    ELSE LET m == Head(ms)
         IN  IndexMitigations(
                 [s EXCEPT !.mitigations = MapSet(@, m.id, m),
                           !.mitigationsByStixId = MapSet(@, m.stixId, m)],
                 Tail(ms))

RECURSIVE IndexDataSources(_, _)
IndexDataSources(s, dss) ==
    IF dss = <<>> THEN s
    ELSE LET ds == Head(dss)
         IN  IndexDataSources(
                 [s EXCEPT !.dataSources = MapSet(@, ds.id, ds),
                           !.dataSourcesByStixId = MapSet(@, ds.stixId, ds),
                           !.dataSourcesByName = MapSet(@, toLowerCase(ds.name), ds)],
                 Tail(dss))

(***************************************************************************)
(* indexBundle: the store it leaves behind and whether it raised.  A       *)
(* bundle without an objects list raises in parseTechniques                *)
(* (bundle.objects.filter), as does a kill-chain phase without a chain     *)
(* name; both before anything of the bundle is indexed.  A non-string      *)
(* alias raises inside the group or software loop, after the techniques,   *)
(* the tactics and the entries before it were set.                         *)
(***************************************************************************)
indexBundle(s, bundle) ==
    IF ~Has(bundle, "objects") THEN [store |-> s, threw |-> TRUE]
    ELSE IF parseTechniqueThrows(bundle) THEN [store |-> s, threw |-> TRUE]
    ELSE
      LET s1 == IndexTechniques(s, parseTechniques(bundle))
          s2 == IndexTactics(s1, parseTactics(bundle))
          g  == IndexGroups(s2, parseGroups(bundle))
      IN  IF g.threw THEN g
          ELSE
            LET sw == IndexSoftware(g.store, parseSoftware(bundle))
            IN  IF sw.threw THEN sw
                ELSE
                  LET s5 == IndexMitigations(sw.store, parseMitigations(bundle))
                      s6 == IndexDataSources(s5, parseDataSources(bundle))
                  IN  [store |->
                          [s6 EXCEPT !.dataComponents = @ \o parseDataComponents(bundle),
                                     !.relationships = @ \o parseRelationships(bundle)],
                       threw |-> FALSE]

(***************************************************************************)
(* for (const [, bundle] of bundles) this.indexBundle(bundle): stops at    *)
(* the first bundle that raises and keeps what was indexed until then.     *)
(***************************************************************************)
RECURSIVE IndexBundles(_, _)
\* IndexRest that returns after the first bundle
IndexRest_FirstOnly(r, rest) == r

\* after one bundle: its error ends the loop, otherwise the next bundle
IndexRest(r, rest) == IF r.threw THEN r ELSE IndexBundles(r.store, rest)

IndexBundles(s, bundles) ==
    IF bundles = <<>> THEN [store |-> s, threw |-> FALSE]
    ELSE IndexRest(indexBundle(s, Head(bundles)), Tail(bundles))

(***************************************************************************)
(* Queries of AttackDataStore, as functions of the store s.  A point       *)
(* lookup yields <<>> for undefined and <<e>> for a hit.                   *)
(***************************************************************************)
\* Current with the revoked flag forgotten
Current_DeprecatedOnly(e) == ~e.deprecated

\* all.filter((e) => !e.deprecated && !e.revoked)
Current(e) == ~e.deprecated /\ ~e.revoked

\* a || b on two lookups
OrElse(a, b) == IF a # <<>> THEN a ELSE b

getTechnique(s, id) == MapGet(s.techniques, toUpperCase(id))

getTechniqueByStixId(s, stixId) == MapGet(s.techniquesByStixId, stixId)

getAllTechniques(s, includeDeprecated) ==
    LET all == MapValues(s.techniques)
    IN  IF includeDeprecated THEN all ELSE SelectSeq(all, Current)

\* if (opts.f): the filter is given and is not the empty string
Given(opts, f) == Has(opts, f) /\ opts[f] # <<>>

\* Array.prototype.some
some(seq, Test(_)) == \E i \in 1..Len(seq) : Test(seq[i])

MatchesQuery(t, opts) ==
    Given(opts, "query") =>
        LET q == toLowerCase(opts.query)
        IN  \/ includes(toLowerCase(t.name), q)
            \/ includes(toLowerCase(t.description), q)
            \/ includes(toLowerCase(t.id), q)

MatchesTactic(t, opts) ==
    Given(opts, "tactic") =>
        LET Same(ta) == toLowerCase(ta) = toLowerCase(opts.tactic)
        IN  some(t.tactics, Same)

MatchesPlatform(t, opts) ==
    Given(opts, "platform") =>
        LET Same(pl) == toLowerCase(pl) = toLowerCase(opts.platform)
        IN  some(t.platforms, Same)

MatchesDataSource(t, opts) ==
    Given(opts, "dataSource") =>
        LET Holds(d) == includes(toLowerCase(d), toLowerCase(opts.dataSource))
        IN  some(t.dataSources, Holds)

\* opts.isSubtechnique !== undefined
MatchesIsSubtechnique(t, opts) ==
    Has(opts, "isSubtechnique") => t.isSubtechnique = opts.isSubtechnique

\* searchTechniques over the listing that includes deprecated techniques
searchTechniques_IncludeDeprecated(s, opts) ==
    LET Keep(t) == /\ MatchesQuery(t, opts)
                   /\ MatchesTactic(t, opts)
                   /\ MatchesPlatform(t, opts)
                   /\ MatchesDataSource(t, opts)
                   /\ MatchesIsSubtechnique(t, opts)
    IN  SelectSeq(getAllTechniques(s, TRUE), Keep)

\* the filters are applied one after the other to the default listing
searchTechniques(s, opts) ==
    LET Keep(t) == /\ MatchesQuery(t, opts)
                   /\ MatchesTactic(t, opts)
                   /\ MatchesPlatform(t, opts)
                   /\ MatchesDataSource(t, opts)
                   /\ MatchesIsSubtechnique(t, opts)
    IN  SelectSeq(getAllTechniques(s, FALSE), Keep)

getTactic(s, id) ==
    OrElse(MapGet(s.tactics, toUpperCase(id)),
           MapGet(s.tacticsByShortName, toLowerCase(id)))

\* getAllTactics without the sort
getAllTactics_Unsorted(s) == MapValues(s.tactics)

getAllTactics(s) == SortByOrder(MapValues(s.tactics))

getGroup(s, idOrName) ==
    OrElse(MapGet(s.groups, toUpperCase(idOrName)),
           MapGet(s.groupsByName, toLowerCase(idOrName)))

getAllGroups(s, includeDeprecated) ==
    LET all == MapValues(s.groups)
    IN  IF includeDeprecated THEN all ELSE SelectSeq(all, Current)

getSoftware(s, idOrName) ==
    OrElse(MapGet(s.software, toUpperCase(idOrName)),
           MapGet(s.softwareByName, toLowerCase(idOrName)))

getAllSoftware(s, includeDeprecated) ==
    LET all == MapValues(s.software)
    IN  IF includeDeprecated THEN all ELSE SelectSeq(all, Current)

getMitigation(s, id) == MapGet(s.mitigations, toUpperCase(id))

getAllMitigations(s, includeDeprecated) ==
    LET all == MapValues(s.mitigations)
    IN  IF includeDeprecated THEN all ELSE SelectSeq(all, Current)

getDataSource(s, idOrName) ==
    OrElse(MapGet(s.dataSources, toUpperCase(idOrName)),
           MapGet(s.dataSourcesByName, toLowerCase(idOrName)))

getAllDataSources(s) == MapValues(s.dataSources)

getDataComponents(s) == s.dataComponents

getRelationships(s) == s.relationships

(***************************************************************************)
(* Composite queries: filter the relationship list, resolve the other end  *)
(* through an internal-ID map, drop the misses (the nulls).                *)
(***************************************************************************)
\* .map(r => ...).filter(x => x !== null) over the selected relationships
RECURSIVE ResolveEach(_, _, _)
ResolveEach(rels, Resolve(_), i) ==
    IF i > Len(rels) THEN <<>>
    ELSE Resolve(rels[i]) \o ResolveEach(rels, Resolve, i + 1)

\* if (!technique || technique.deprecated || technique.revoked) return null
KeepTechnique(hit) == hit # <<>> /\ ~hit[1].deprecated /\ ~hit[1].revoked

\* if (!sw) return null
KeepSoftware(hit) == hit # <<>>

\* if (!group) return null
KeepGroup(hit) == hit # <<>>

\* if (!mitigation || mitigation.deprecated || mitigation.revoked) return null
KeepMitigation(hit) == hit # <<>> /\ ~hit[1].deprecated /\ ~hit[1].revoked

\* getGroupTechniques that matches the group against the target of the edge
getGroupTechniques_ByTarget(s, groupStixId) ==
    LET Sel(r) == r.targetRef = groupStixId /\ r.relationshipType = "uses"
        Res(r) == LET hit == MapGet(s.techniquesByStixId, r.targetRef)
                  IN  IF KeepTechnique(hit)
                      THEN <<[technique |-> hit[1], usage |-> r.description]>>
                      ELSE <<>>
    IN  ResolveEach(SelectSeq(s.relationships, Sel), Res, 1)

getGroupTechniques(s, groupStixId) ==
    LET Sel(r) == r.sourceRef = groupStixId /\ r.relationshipType = "uses"
        Res(r) == LET hit == MapGet(s.techniquesByStixId, r.targetRef)
                  IN  IF KeepTechnique(hit)
                      THEN <<[technique |-> hit[1], usage |-> r.description]>>
                      ELSE <<>>
    IN  ResolveEach(SelectSeq(s.relationships, Sel), Res, 1)

getGroupSoftware(s, groupStixId) ==
    LET Sel(r) == r.sourceRef = groupStixId /\ r.relationshipType = "uses"
        Res(r) == LET hit == MapGet(s.softwareByStixId, r.targetRef)
                  IN  IF KeepSoftware(hit) THEN <<[software |-> hit[1]]>> ELSE <<>>
    IN  ResolveEach(SelectSeq(s.relationships, Sel), Res, 1)

getSoftwareTechniques(s, swStixId) ==
    LET Sel(r) == r.sourceRef = swStixId /\ r.relationshipType = "uses"
        Res(r) == LET hit == MapGet(s.techniquesByStixId, r.targetRef)
                  IN  IF KeepTechnique(hit)
                      THEN <<[technique |-> hit[1], usage |-> r.description]>>
                      ELSE <<>>
    IN  ResolveEach(SelectSeq(s.relationships, Sel), Res, 1)

getSoftwareGroups(s, swStixId) ==
    LET Sel(r) == r.targetRef = swStixId /\ r.relationshipType = "uses"
        Res(r) == LET hit == MapGet(s.groupsByStixId, r.sourceRef)
                  IN  IF KeepGroup(hit) THEN <<[group |-> hit[1]]>> ELSE <<>>
    IN  ResolveEach(SelectSeq(s.relationships, Sel), Res, 1)

getMitigationsForTechnique(s, techniqueId) ==
    LET tech == MapGet(s.techniques, toUpperCase(techniqueId))
    IN  IF tech = <<>> THEN <<>>
        ELSE
          LET Sel(r) == r.targetRef = tech[1].stixId /\ r.relationshipType = "mitigates"
              Res(r) == LET hit == MapGet(s.mitigationsByStixId, r.sourceRef)
                        IN  IF KeepMitigation(hit)
                            THEN <<[mitigation |-> hit[1], description |-> r.description]>>
                            ELSE <<>>
          IN  ResolveEach(SelectSeq(s.relationships, Sel), Res, 1)

\* getTechniquesForMitigation that matches the mitigation against the target
\* of the edge
getTechniquesForMitigation_ByTarget(s, mitigationId) ==
    LET mit == MapGet(s.mitigations, toUpperCase(mitigationId))
    IN  IF mit = <<>> THEN <<>>
        ELSE
          LET Sel(r) == r.targetRef = mit[1].stixId /\ r.relationshipType = "mitigates"
              Res(r) == LET hit == MapGet(s.techniquesByStixId, r.targetRef)
                        IN  IF KeepTechnique(hit)
                            THEN <<[technique |-> hit[1], description |-> r.description]>>
                            ELSE <<>>
          IN  ResolveEach(SelectSeq(s.relationships, Sel), Res, 1)

getTechniquesForMitigation(s, mitigationId) ==
    LET mit == MapGet(s.mitigations, toUpperCase(mitigationId))
    IN  IF mit = <<>> THEN <<>>
        ELSE
          LET Sel(r) == r.sourceRef = mit[1].stixId /\ r.relationshipType = "mitigates"
              Res(r) == LET hit == MapGet(s.techniquesByStixId, r.targetRef)
                        IN  IF KeepTechnique(hit)
                            THEN <<[technique |-> hit[1], description |-> r.description]>>
                            ELSE <<>>
          IN  ResolveEach(SelectSeq(s.relationships, Sel), Res, 1)

getComponentsForDataSource(s, dsStixId) ==
    LET Sel(dc) == dc.dataSourceId = dsStixId
    IN  SelectSeq(s.dataComponents, Sel)

getTechniquesDetectedByComponent(s, componentStixId) ==
    LET Sel(r) == r.sourceRef = componentStixId /\ r.relationshipType = "detects"
        Res(r) == LET hit == MapGet(s.techniquesByStixId, r.targetRef)
                  IN  IF KeepTechnique(hit) THEN hit ELSE <<>>
    IN  ResolveEach(SelectSeq(s.relationships, Sel), Res, 1)

\* name, description or an alias holds the lower-cased query
MatchesKeyword(e, opts) ==
    Given(opts, "query") =>
        LET q == toLowerCase(opts.query)
            Holds(a) == includes(toLowerCase(a), q)
        IN  \/ includes(toLowerCase(e.name), q)
            \/ includes(toLowerCase(e.description), q)
            \/ some(e.aliases, Holds)

\* the sources of the 'uses' edges whose target is the technique held under
\* the upper-cased id; <<>> when no technique is held under it
UsersOfTechnique(s, technique) ==
    LET hit == MapGet(s.techniques, toUpperCase(technique))
    IN  IF hit = <<>> THEN <<>>
        ELSE <<{r.sourceRef : r \in {x \in Range(s.relationships) :
                    x.targetRef = hit[1].stixId /\ x.relationshipType = "uses"}}>>

\* the technique filter of searchGroups and searchSoftware
MatchesTechnique(e, s, opts) ==
    Given(opts, "technique") =>
        LET users == UsersOfTechnique(s, opts.technique)
        IN  users # <<>> /\ e.stixId \in users[1]

searchGroups(s, opts) ==
    LET Keep(g) == MatchesKeyword(g, opts) /\ MatchesTechnique(g, s, opts)
    IN  SelectSeq(getAllGroups(s, FALSE), Keep)

\* opts.type is "malware" or "tool" when given
MatchesType(sw, opts) == Has(opts, "type") => sw.type = opts.type

searchSoftware(s, opts) ==
    LET Keep(sw) == /\ MatchesType(sw, opts)
                    /\ MatchesKeyword(sw, opts)
                    /\ MatchesTechnique(sw, s, opts)
    IN  SelectSeq(getAllSoftware(s, FALSE), Keep)

\* getStats counting the techniques of the listing that includes deprecated ones
getStats_AllTechniques(s) ==
    [techniques |-> Len(getAllTechniques(s, TRUE)),
     tactics |-> Len(getAllTactics(s)),
     groups |-> Len(getAllGroups(s, FALSE)),
     software |-> Len(getAllSoftware(s, FALSE)),
     mitigations |-> Len(getAllMitigations(s, FALSE)),
     dataSources |-> Len(getAllDataSources(s)),
     relationships |-> Len(s.relationships)]

getStats(s) ==
    [techniques |-> Len(getAllTechniques(s, FALSE)),
     tactics |-> Len(getAllTactics(s)),
     groups |-> Len(getAllGroups(s, FALSE)),
     software |-> Len(getAllSoftware(s, FALSE)),
     mitigations |-> Len(getAllMitigations(s, FALSE)),
     dataSources |-> Len(getAllDataSources(s)),
     relationships |-> Len(s.relationships)]

(***************************************************************************)
(* The tools that rank groups against a set of observed techniques         *)
(* (tools/mapping.ts, tools/campaign.ts), as functions of the store s and  *)
(* the tool's arguments.                                                   *)
(***************************************************************************)
\* .slice(0, n) of the match lists and of the suggestions
MatchLimit == 15

ProfileLimit == 10

\* likelyGroups.slice(0, 3): the groups whose techniques are suggested
TopGroups == 3

\* Math.round((n / d) * 100) for n >= 0 and d > 0
MathRound100(n, d) == (200 * n + d) \div (2 * d)

\* a.slice(0, n)
slice(a, n) == SubSeq(a, 1, IF Len(a) < n THEN Len(a) ELSE n)

\* a.sort((x, y) => Key(y) - Key(x)): largest key first, the order of equal
\* keys kept
RECURSIVE InsertDescending(_, _, _)
InsertDescending(Key(_), sorted, x) ==
    IF sorted = <<>> THEN <<x>>
    ELSE IF Key(Head(sorted)) >= Key(x)
         THEN <<Head(sorted)>> \o InsertDescending(Key, Tail(sorted), x)
         ELSE <<x>> \o sorted

RECURSIVE SortDescending(_, _)
SortDescending(Key(_), a) ==
    IF a = <<>> THEN <<>>
    ELSE InsertDescending(Key, SortDescending(Key, SubSeq(a, 1, Len(a) - 1)), a[Len(a)])

\* `${a} - ${b}`
Label(a, b) == a \o <<" ", "-", " ">> \o b

\* label.split(" - ")[0]
splitLabelFirst(label) ==
    LET sep == <<" ", "-", " ">>
        At(i) == \A j \in 1..Len(sep) : label[i + j] = sep[j]
        starts == {i \in 0..(Len(label) - Len(sep)) : At(i)}
    IN  IF starts = {} THEN label
        ELSE SubSeq(label, 1, CHOOSE i \in starts : \A k \in starts : i <= k)

\* store.getGroupTechniques(stixId).map((t) => t.technique.id)
GroupTechIds(s, stixId) ==
    LET techs == getGroupTechniques(s, stixId)
    IN  [i \in 1..Len(techs) |-> techs[i].technique.id]

ScoreOf(m) == m.overlapScore

HasShared(m) == Len(m.sharedTechniques) > 0

(***************************************************************************)
(* mitre_technique_overlap({techniques}) with at least one technique id:   *)
(* the matches of its reply.                                               *)
(***************************************************************************)
mitre_technique_overlap(s, techniques) ==
    LET techSet == {toUpperCase(techniques[i]) : i \in 1..Len(techniques)}
        InSet(t) == t \in techSet
        allGroups == getAllGroups(s, FALSE)
        Match(group) ==
            [id |-> group.id,
             name |-> group.name,
             sharedTechniques |-> SelectSeq(GroupTechIds(s, group.stixId), InSet),
             overlapScore |->
                 MathRound100(Len(SelectSeq(GroupTechIds(s, group.stixId), InSet)),
                              Cardinality(techSet))]
        matches == [i \in 1..Len(allGroups) |-> Match(allGroups[i])]
    IN  slice(SortDescending(ScoreOf, SelectSeq(matches, HasShared)), MatchLimit)

(***************************************************************************)
(* mitre_campaign_profile({techniques}): isError when no id resolves,      *)
(* otherwise the likelyGroups and the suggestedNextTechniques of its       *)
(* reply.                                                                  *)
(***************************************************************************)
\* techniques.map((id) => store.getTechnique(id)).filter(defined)
RECURSIVE ObservedTechniques(_, _)
ObservedTechniques(s, techniques) ==
    IF techniques = <<>> THEN <<>>
    ELSE getTechnique(s, Head(techniques)) \o ObservedTechniques(s, Tail(techniques))

likelyGroups(s, observedIds) ==
    LET InSet(t) == t \in observedIds
        allGroups == getAllGroups(s, FALSE)
        Match(group) ==
            [group |-> Label(group.id, group.name),
             overlapScore |->
                 MathRound100(Len(SelectSeq(GroupTechIds(s, group.stixId), InSet)),
                              Cardinality(observedIds)),
             sharedTechniques |-> SelectSeq(GroupTechIds(s, group.stixId), InSet),
             totalGroupTechniques |-> Len(GroupTechIds(s, group.stixId))]
        matches == [i \in 1..Len(allGroups) |-> Match(allGroups[i])]
    IN  slice(SortDescending(ScoreOf, SelectSeq(matches, HasShared)), ProfileLimit)

\* the inner loop: one more for every technique of the group that was not
\* observed
RECURSIVE CountUnobserved(_, _, _)
CountUnobserved(suggested, groupTechs, observedIds) ==
    IF groupTechs = <<>> THEN suggested
    ELSE LET t == Head(groupTechs).technique
             key == Label(t.id, t.name)
             before == MapGet(suggested, key)
         IN  CountUnobserved(
                 IF t.id \in observedIds THEN suggested
                 ELSE MapSet(suggested, key,
                             (IF before = <<>> THEN 0 ELSE before[1]) + 1),
                 Tail(groupTechs), observedIds)

\* the outer loop over the top matches: a match whose group is not found
\* again by the id of its label is skipped
RECURSIVE SuggestedNext(_, _, _, _)
SuggestedNext(s, suggested, matches, observedIds) ==
    IF matches = <<>> THEN suggested
    ELSE LET group == getGroup(s, splitLabelFirst(Head(matches).group))
         IN  SuggestedNext(
                 s,
                 IF group = <<>> THEN suggested
                 ELSE CountUnobserved(suggested,
                                      getGroupTechniques(s, group[1].stixId),
                                      observedIds),
                 Tail(matches), observedIds)

CountOf(entry) == entry.value

suggestedNextTechniques(s, observedIds) ==
    LET counted == SuggestedNext(s, EmptyMap,
                                 slice(likelyGroups(s, observedIds), TopGroups),
                                 observedIds)
        ranked == slice(SortDescending(CountOf, counted), ProfileLimit)
    IN  [i \in 1..Len(ranked) |-> ranked[i].key]

mitre_campaign_profile(s, techniques) ==
    LET observed == ObservedTechniques(s, techniques)
        observedIds == {observed[i].id : i \in 1..Len(observed)}
    IN  IF observed = <<>>
        THEN [isError |-> TRUE, likelyGroups |-> <<>>, suggestedNextTechniques |-> <<>>]
        ELSE [isError |-> FALSE,
              likelyGroups |-> likelyGroups(s, observedIds),
              suggestedNextTechniques |-> suggestedNextTechniques(s, observedIds)]

(***************************************************************************)
(* Bounds of the model.                                                    *)
(***************************************************************************)
\* raw objects the environment supplies in one run, over all its bundles
\* (bundles that are handed over again unchanged are not counted twice)
MaxObjs == 3

\* load calls (successful or failed) in one run
MaxLoads == 2

\* the oldest cache metadata a server starts with, in the unit of UpdateInterval
MaxAge == 2

\* config.updateInterval
UpdateInterval == 1

(***************************************************************************)
(* Program constants.                                                      *)
(***************************************************************************)
\* MatrixType = "enterprise" | "mobile" | "ics": a Map<MatrixType, StixBundle>
\* holds at most three bundles
NumMatrixTypes == 3

\* MITRE_MATRICES defaults to "enterprise": a download yields one bundle
ConfigMatrices == <<"enterprise">>

(***************************************************************************)
(* The raw objects a dataset may contain.  Each corpus is a small set of   *)
(* STIX objects around one kind of relation; a run draws every bundle from *)
(* one corpus.  Public ids, names and aliases are short strings.           *)
(***************************************************************************)
Ref(ext) == <<[source_name |-> "mitre-attack", external_id |-> ext]>>

AP_T1 ==
    [type |-> "attack-pattern", id |-> "ap1", name |-> <<"a">>,
     external_references |-> Ref(<<"T", "1">>)]

\* a public id written in lower case, under another STIX id
AP_t1 ==
    [type |-> "attack-pattern", id |-> "ap2", name |-> <<"b">>,
     external_references |-> Ref(<<"t", "1">>)]

\* the lower-case public id once more, under the STIX id of AP_T1
AP_t1_b ==
    [type |-> "attack-pattern", id |-> "ap1", name |-> <<"e">>,
     external_references |-> Ref(<<"t", "1">>)]

\* the same public id as AP_T1 under another STIX id, deprecated
AP_T1_dep ==
    [type |-> "attack-pattern", id |-> "ap2", name |-> <<"c">>,
     external_references |-> Ref(<<"T", "1">>), x_mitre_deprecated |-> TRUE]

\* the same STIX id and public id as AP_T1, revoked
AP_T1_rev ==
    [type |-> "attack-pattern", id |-> "ap1", name |-> <<"a">>,
     external_references |-> Ref(<<"T", "1">>), revoked |-> TRUE]

\* a kill-chain phase without kill_chain_name
AP_nochain ==
    [type |-> "attack-pattern", id |-> "ap3", name |-> <<"d">>,
     external_references |-> Ref(<<"T", "2">>),
     kill_chain_phases |-> <<[phase_name |-> <<"x">>]>>]

\* a public id with the hierarchical separator, without the sub-technique flag
AP_sub ==
    [type |-> "attack-pattern", id |-> "ap4", name |-> <<"s">>,
     external_references |-> Ref(<<"T", "1", ".", "1">>)]

\* the sub-technique flag on an object without a mitre-attack reference
AP_flag_noid ==
    [type |-> "attack-pattern", id |-> "ap5", name |-> <<"n">>,
     x_mitre_is_subtechnique |-> TRUE]

IS_G1 ==
    [type |-> "intrusion-set", id |-> "is1", name |-> <<"A", "p">>,
     external_references |-> Ref(<<"G", "1">>), aliases |-> <<<<"F", "b">>>>]

IS_G1_dep ==
    [type |-> "intrusion-set", id |-> "is1", name |-> <<"A", "p">>,
     external_references |-> Ref(<<"G", "1">>), x_mitre_deprecated |-> TRUE]

\* another group whose name is the alias of IS_G1
IS_G2 ==
    [type |-> "intrusion-set", id |-> "is2", name |-> <<"f", "b">>,
     external_references |-> Ref(<<"G", "2">>)]

\* an alias that is JSON null
IS_nullalias ==
    [type |-> "intrusion-set", id |-> "is3", name |-> <<"z">>,
     external_references |-> Ref(<<"G", "3">>),
     aliases |-> <<<<"y">>, Null>>]

MW_S1 ==
    [type |-> "malware", id |-> "sw1", name |-> <<"M", "k">>,
     external_references |-> Ref(<<"S", "1">>), aliases |-> <<<<"M", "z">>>>]

\* the same STIX id and public id as MW_S1, a tool, revoked
TOOL_S1_rev ==
    [type |-> "tool", id |-> "sw1", name |-> <<"M", "k">>,
     external_references |-> Ref(<<"S", "1">>), revoked |-> TRUE]

\* a tool under its own STIX id and public id
TOOL_S2 ==
    [type |-> "tool", id |-> "sw2", name |-> <<"P", "s">>,
     external_references |-> Ref(<<"S", "2">>)]

COA_M1 ==
    [type |-> "course-of-action", id |-> "coa1", name |-> <<"m">>,
     external_references |-> Ref(<<"M", "1">>)]

COA_M1_dep ==
    [type |-> "course-of-action", id |-> "coa1", name |-> <<"m">>,
     external_references |-> Ref(<<"M", "1">>), x_mitre_deprecated |-> TRUE]

DS_1 ==
    [type |-> "x-mitre-data-source", id |-> "ds1", name |-> <<"P", "r">>,
     external_references |-> Ref(<<"D", "1">>)]

\* the same public id as DS_1 under another STIX id and name
DS_1b ==
    [type |-> "x-mitre-data-source", id |-> "ds2", name |-> <<"p", "q">>,
     external_references |-> Ref(<<"D", "1">>)]

DC_1 ==
    [type |-> "x-mitre-data-component", id |-> "dc1", name |-> <<"c">>,
     x_mitre_data_source_ref |-> "ds1"]

TA_exec ==
    [type |-> "x-mitre-tactic", id |-> "ta1", name |-> <<"E">>,
     x_mitre_shortname |-> <<"e", "x", "e", "c", "u", "t", "i", "o", "n">>,
     external_references |-> Ref(<<"T", "A", "1">>)]

\* earlier in the kill chain than TA_exec
TA_init ==
    [type |-> "x-mitre-tactic", id |-> "ta2", name |-> <<"I">>,
     x_mitre_shortname |-> <<"i", "n", "i", "t", "i", "a", "l", "-", "a", "c", "c", "e", "s", "s">>,
     external_references |-> Ref(<<"T", "A", "2">>)]

\* a short name that is not in the order table, under the public id of TA_exec
TA_other ==
    [type |-> "x-mitre-tactic", id |-> "ta3", name |-> <<"O">>,
     x_mitre_shortname |-> <<"o">>,
     external_references |-> Ref(<<"T", "A", "1">>)]

Rel(src, tgt, ty) ==
    [type |-> "relationship", id |-> "rel", relationship_type |-> ty,
     source_ref |-> src, target_ref |-> tgt, description |-> <<"u">>]

MitreAttack == <<"m", "i", "t", "r", "e", "-", "a", "t", "t", "a", "c", "k">>

Phase(chain, name) == [kill_chain_name |-> chain, phase_name |-> name]

\* techniques with tactics, platforms, data sources and a description
AP_exec ==
    [type |-> "attack-pattern", id |-> "ap1", name |-> <<"A", "b">>,
     description |-> <<"c", "d">>,
     external_references |-> Ref(<<"T", "1">>),
     kill_chain_phases |-> <<Phase(MitreAttack, <<"e", "x">>)>>,
     x_mitre_platforms |-> <<<<"W">>>>,
     x_mitre_data_sources |-> <<<<"P", "c">>>>]

\* a phase of another kill chain, a platform in lower case, the flag
AP_cloud ==
    [type |-> "attack-pattern", id |-> "ap2", name |-> <<"C", "d">>,
     external_references |-> Ref(<<"T", "2">>),
     kill_chain_phases |-> <<Phase(MitreAttack, <<"i", "a">>),
                             Phase(<<"k">>, <<"e", "x">>)>>,
     x_mitre_platforms |-> <<<<"w">>, <<"C">>>>,
     x_mitre_data_sources |-> <<<<"L", "p">>>>,
     x_mitre_is_subtechnique |-> TRUE]

\* AP_exec under another id, deprecated
AP_exec_dep ==
    [type |-> "attack-pattern", id |-> "ap3", name |-> <<"A", "b">>,
     description |-> <<"c", "d">>,
     external_references |-> Ref(<<"T", "3">>),
     kill_chain_phases |-> <<Phase(MitreAttack, <<"e", "x">>)>>,
     x_mitre_platforms |-> <<<<"W">>>>,
     x_mitre_data_sources |-> <<<<"P", "c">>>>,
     x_mitre_deprecated |-> TRUE]

\* two more techniques, for datasets with several groups
AP_T2 ==
    [type |-> "attack-pattern", id |-> "ap2", name |-> <<"h">>,
     external_references |-> Ref(<<"T", "2">>)]

AP_T3 ==
    [type |-> "attack-pattern", id |-> "ap3", name |-> <<"k">>,
     external_references |-> Ref(<<"T", "3">>)]

\* relationship objects marked deprecated, and marked revoked
RelDeprecated(src, tgt, ty) ==
    [type |-> "relationship", id |-> "rel-d", relationship_type |-> ty,
     source_ref |-> src, target_ref |-> tgt, description |-> <<"d">>,
     x_mitre_deprecated |-> TRUE]

RelRevoked(src, tgt, ty) ==
    [type |-> "relationship", id |-> "rel-r", relationship_type |-> ty,
     source_ref |-> src, target_ref |-> tgt, revoked |-> TRUE]

Corpus ==
    [techniqueIds |-> {AP_T1, AP_t1, AP_t1_b, AP_T1_dep, AP_nochain},
     groupNames |-> {IS_G1, IS_G2, IS_G1_dep, IS_nullalias},
     groupTechnique |-> {IS_G1, AP_T1, AP_T1_rev, Rel("is1", "ap1", "uses")},
     groupSoftware |-> {IS_G1, IS_G1_dep, MW_S1, TOOL_S1_rev, Rel("is1", "sw1", "uses")},
     softwareTechnique |-> {MW_S1, AP_T1, AP_T1_dep, Rel("sw1", "ap1", "uses"),
                            Rel("sw1", "ap2", "uses")},
     mitigation |-> {COA_M1, COA_M1_dep, AP_T1, AP_t1_b, Rel("coa1", "ap1", "mitigates")},
     detection |-> {DC_1, AP_T1, AP_T1_rev, Rel("dc1", "ap1", "detects")},
     dataSources |-> {DS_1, DS_1b, DC_1},
     tactics |-> {TA_exec, TA_init, TA_other, AP_T1},
     subtechniques |-> {AP_T1, AP_sub, AP_flag_noid},
     relationships |-> {IS_G1, AP_T1, Rel("is1", "ap1", "uses"),
                        RelDeprecated("is1", "ap1", "uses"),
                        RelRevoked("is1", "ap1", "uses")},
     search |-> {AP_exec, AP_cloud, AP_exec_dep},
     campaign |-> {IS_G1, AP_T1, Rel("is1", "ap1", "uses")},
     software |-> {MW_S1, TOOL_S2}]

CorpusNames == DOMAIN Corpus

(***************************************************************************)
(* Bundles and loads over a corpus.  A bundle without an objects list      *)
(* counts as one object.  A load is a Map<MatrixType, StixBundle>, given   *)
(* as the sequence of its bundles in iteration order.                      *)
(***************************************************************************)
MalformedBundle == [type |-> "bundle"]

Weight(b) == IF Has(b, "objects") THEN Len(b.objects) ELSE 1

RECURSIVE TotalWeight(_)
TotalWeight(bs) == IF bs = <<>> THEN 0 ELSE Weight(Head(bs)) + TotalWeight(Tail(bs))

\* the bundles of exactly w objects: distinct objects of the pool in any order
BundlesOfWeight(pool, w) ==
    {[type |-> "bundle", objects |-> os] :
        os \in {x \in [1..w -> pool] : \A i, j \in 1..w : x[i] = x[j] => i = j}}
    \cup (IF w = 1 THEN {MalformedBundle} ELSE {})

\* the sequences of k bundles, each of at least one object, of w objects in all
RECURSIVE BundleSeqs(_, _, _)
BundleSeqs(pool, k, w) ==
    IF k = 0 THEN (IF w = 0 THEN {<<>>} ELSE {})
    ELSE UNION {{<<b>> \o rest : b \in BundlesOfWeight(pool, first),
                                 rest \in BundleSeqs(pool, k - 1, w - first)} :
                first \in 1..(w - (k - 1))}

\* the loads of w objects in all: no bundle, one bundle (possibly empty), or
\* up to NumMatrixTypes bundles that are not empty
LoadsOfWeight(pool, w) ==
    (IF w = 0 THEN {<<>>, <<[type |-> "bundle", objects |-> <<>>]>>} ELSE {})
    \cup UNION {BundleSeqs(pool, k, w) : k \in 1..NumMatrixTypes}

Loads == [c \in CorpusNames |-> [w \in 0..MaxObjs |-> LoadsOfWeight(Corpus[c], w)]]

\* what a download of n matrices can deliver
Downloads ==
    [c \in CorpusNames |->
        [w \in 0..MaxObjs |->
            [n \in 0..NumMatrixTypes |-> {bs \in Loads[c][w] : Len(bs) = n}]]]

(***************************************************************************)
(* The cache directory: one file per configured matrix, in the order of    *)
(* config.matrices, and metadata.json.  A file is absent (<<>>) or holds   *)
(* one value: a parsed bundle, or text that JSON.parse rejects.  The       *)
(* metadata holds the age of its lastUpdated stamp when the server starts  *)
(* (now - lastUpdated, in the unit of updateInterval), or a stamp that is  *)
(* no date.                                                                *)
(***************************************************************************)
NoFile == <<>>

Unparseable == <<[unparseable |-> TRUE]>>

Parses(file) == file # NoFile /\ ~Has(file[1], "unparseable")

Stamp(age) == <<[valid |-> TRUE, age |-> age]>>

InvalidStamp == <<[valid |-> FALSE, age |-> 0]>>

\* isCacheStale with >= in place of >
isCacheStale_AtInterval(c, updateInterval) ==
    IF ~Parses(c.meta) THEN TRUE
    ELSE IF ~c.meta[1].valid THEN FALSE
    ELSE c.meta[1].age >= updateInterval

\* isCacheStale: no metadata or unreadable metadata is stale; otherwise
\* now - lastUpdated > updateInterval * 1000, which is false when the stamp
\* is no date (the difference is NaN)
isCacheStale(c, updateInterval) ==
    IF ~Parses(c.meta) THEN TRUE
    ELSE IF ~c.meta[1].valid THEN FALSE
    ELSE c.meta[1].age > updateInterval

\* hasCachedData: matrices.every(existsSync)
hasCachedData(c) == \A i \in 1..Len(c.files) : c.files[i] # NoFile

\* loadCachedBundle: null for an absent or unparseable file
loadCachedBundle(file) ==
    IF Parses(file) THEN [found |-> TRUE, bundle |-> file[1]]
    ELSE [found |-> FALSE, bundle |-> MalformedBundle]

\* loadCachedBundles: null as soon as one matrix has no bundle
loadCachedBundles(c) ==
    IF \A i \in 1..Len(c.files) : loadCachedBundle(c.files[i]).found
    THEN [found |-> TRUE,
          bundles |-> [i \in 1..Len(c.files) |-> loadCachedBundle(c.files[i]).bundle]]
    ELSE [found |-> FALSE, bundles |-> <<>>]

\* downloadMatrix writes the file of its matrix as soon as it is fetched:
\* the cache after the first Len(fetched) matrices were downloaded
FilesWritten(c, fetched) ==
    [i \in 1..Len(c.files) |->
        IF i <= Len(fetched) THEN <<fetched[i]>> ELSE c.files[i]]

\* downloadAllMatrices raising at a matrix after the matrices before it
\* were fetched: their files are written, metadata.json is not
downloadAllMatrices_Failed(c, fetched) ==
    [files |-> FilesWritten(c, fetched), meta |-> c.meta]

\* downloadAllMatrices returning: every file written, then metadata.json
\* with lastUpdated: now
downloadAllMatrices(c, fetched) ==
    [files |-> FilesWritten(c, fetched), meta |-> Stamp(0)]

\* initialize takes the cache without a download
UsesCache(c, updateInterval) ==
    /\ hasCachedData(c)
    /\ ~isCacheStale(c, updateInterval)
    /\ loadCachedBundles(c).found

(***************************************************************************)
(* The environments a server may start in: the configured matrices         *)
(* (MITRE_MATRICES) and the cache directory it finds.  The corpus "search" *)
(* starts with every combination of cached files and metadata, the corpus  *)
(* "campaign" with a cached dataset of several groups; the other corpora   *)
(* start with the default configuration and an empty directory.            *)
(***************************************************************************)
CachedBundle(o) == <<[type |-> "bundle", objects |-> <<o>>]>>

Stamps == {<<>>, Unparseable, InvalidStamp} \cup {Stamp(age) : age \in 0..MaxAge}

\* a dataset of two groups and three techniques: G1 uses T1, T2 and T3, G2
\* uses T1 and T3
TwoGroups ==
    <<IS_G1, IS_G2, AP_T1, AP_T2, AP_T3,
      Rel("is1", "ap1", "uses"), Rel("is1", "ap2", "uses"), Rel("is1", "ap3", "uses"),
      Rel("is2", "ap1", "uses"), Rel("is2", "ap3", "uses")>>

\* the same with the relationship from G1 to T2 recorded twice
TwoGroupsRepeated ==
    <<IS_G1, IS_G2, AP_T1, AP_T2, AP_T3,
      Rel("is1", "ap1", "uses"), Rel("is1", "ap2", "uses"), Rel("is1", "ap2", "uses"),
      Rel("is1", "ap3", "uses"), Rel("is2", "ap1", "uses"), Rel("is2", "ap3", "uses")>>

Environments(c) ==
    IF c = "campaign"
    THEN {[matrices |-> ConfigMatrices, files |-> <<f>>, meta |-> m] :
              f \in {NoFile, <<[type |-> "bundle", objects |-> TwoGroups]>>,
                     <<[type |-> "bundle", objects |-> TwoGroupsRepeated]>>},
              m \in {<<>>, Stamp(0)}}
    ELSE IF c = "search"
    THEN {[matrices |-> ConfigMatrices, files |-> <<f>>, meta |-> m] :
              f \in {NoFile, Unparseable, CachedBundle(AP_exec)}, m \in Stamps}
         \cup {[matrices |-> <<"enterprise", "mobile">>, files |-> <<f, g>>, meta |-> m] :
                  f \in {NoFile, CachedBundle(AP_exec)},
                  g \in {Unparseable, CachedBundle(AP_cloud)},
                  m \in {<<>>, Stamp(0), Stamp(MaxAge)}}
    ELSE {[matrices |-> ConfigMatrices, files |-> <<NoFile>>, meta |-> <<>>]}

\* the objects held by the parsed files of a cache
CacheWeight(files) ==
    TotalWeight([i \in 1..Len(files) |->
                    IF Parses(files[i]) THEN files[i][1]
                    ELSE [type |-> "bundle", objects |-> <<>>]])

(***************************************************************************)
(* State.                                                                  *)
(*   store    the index maps and lists of the AttackDataStore              *)
(*   loaded   its loaded flag                                              *)
(*   phase    "new" at construction; "starting" once main has read the     *)
(*            configuration; "serving" once main has run initialize;       *)
(*            "updating" while a mitre_update_data call awaits its         *)
(*            download                                                     *)
(*   corpus   the corpus this run draws its bundles from                   *)
(*   lastCall the latest load call: its operation, the bundles it was      *)
(*            given or obtained, and whether it ended with an error        *)
(*   repeated the latest call completed and was given the same bundles as  *)
(*            the completed call right before it                           *)
(*   nCalls   the number of load calls so far                              *)
(*   used     the number of raw objects supplied so far, MaxObjs when the  *)
(*            cache alone holds more                                       *)
(*   matrices config.matrices                                              *)
(*   cache    the files and the metadata of config.dataDir                 *)
(*   fetch    whether the latest load call downloaded: "none", "ok" or     *)
(*            "failed"                                                     *)
(*   queried  a tool call ran a store query since the latest load call     *)
(*            ended                                                        *)
(***************************************************************************)
VARIABLES store, loaded, phase, corpus, lastCall, repeated, nCalls, used,
          matrices, cache, fetch, queried

vars == <<store, loaded, phase, corpus, lastCall, repeated, nCalls, used,
          matrices, cache, fetch, queried>>

NoCall == [op |-> "none", bundles |-> <<>>, threw |-> FALSE]

NoCache == [files |-> <<>>, meta |-> <<>>]

Init ==
    /\ store = EmptyStore
    /\ loaded = FALSE
    /\ phase = "new"
    /\ corpus \in CorpusNames
    /\ lastCall = NoCall
    /\ repeated = FALSE
    /\ nCalls = 0
    /\ used = 0
    /\ matrices = <<>>
    /\ cache = NoCache
    /\ fetch = "none"
    /\ queried = FALSE

\* LoadedAfter with the flag set before the bundles are indexed
LoadedAfter_SetFirst(was, threw) == TRUE

\* this.loaded = true is reached only when no indexBundle call raised
LoadedAfter(was, threw) == IF threw THEN was ELSE TRUE

\* the bookkeeping of a load call that was given (or obtained) bundles bs and
\* whose loop over them ended as r
Finished(op, bs, r) ==
    /\ store' = r.store
    /\ loaded' = LoadedAfter(loaded, r.threw)
    /\ lastCall' = [op |-> op, bundles |-> bs, threw |-> r.threw]
    /\ repeated' = (/\ ~r.threw
                    /\ lastCall.op # "none"
                    /\ ~lastCall.threw
                    /\ lastCall.bundles = bs)
    /\ nCalls' = nCalls + 1
    /\ queried' = FALSE

Indexed(op, bs) == Finished(op, bs, IndexBundles(store, bs))

\* a call that raised before it indexed anything
FailedEarly(op) ==
    /\ lastCall' = [op |-> op, bundles |-> <<>>, threw |-> TRUE]
    /\ repeated' = FALSE
    /\ nCalls' = nCalls + 1
    /\ queried' = FALSE
    /\ UNCHANGED <<store, loaded>>

(***************************************************************************)
(* store.loadFromBundles(bundles), called on a store by its owner (the     *)
(* test suites build their stores this way): with new bundles, or with the *)
(* bundles of the call before once more.                                   *)
(***************************************************************************)
LoadFromBundles(bs) ==
    /\ phase = "new"
    /\ nCalls < MaxLoads
    /\ Indexed("loadFromBundles", bs)
    /\ used' = used + TotalWeight(bs)
    /\ UNCHANGED <<phase, corpus, matrices, cache, fetch>>

LoadFromBundlesAgain ==
    /\ phase = "new"
    /\ nCalls < MaxLoads
    /\ lastCall.op # "none"
    /\ Indexed("loadFromBundles", lastCall.bundles)
    /\ UNCHANGED <<phase, corpus, used, matrices, cache, fetch>>

(***************************************************************************)
(* main: loadConfig reads the environment; the store is given the          *)
(* configuration and finds the cache directory as it is.                   *)
(***************************************************************************)
LoadConfig(env) ==
    /\ phase = "new"
    /\ nCalls = 0
    /\ matrices' = env.matrices
    /\ cache' = [files |-> env.files, meta |-> env.meta]
    /\ used' = IF used + CacheWeight(env.files) <= MaxObjs
               THEN used + CacheWeight(env.files)
               ELSE MaxObjs
    /\ phase' = "starting"
    /\ UNCHANGED <<store, loaded, corpus, lastCall, repeated, nCalls, fetch, queried>>

(***************************************************************************)
(* store.initialize(), run once by main before the tools are registered.   *)
(* A complete cache that is not stale is indexed without a download.       *)
(* Otherwise downloadAllMatrices runs: when it returns, its bundles are    *)
(* indexed; when it raises, the cache (with the files the download wrote   *)
(* before it raised) is indexed if complete, and initialize raises if not. *)
(***************************************************************************)
InitializeFromCache ==
    /\ phase = "starting"
    /\ UsesCache(cache, UpdateInterval)
    /\ Indexed("initialize", loadCachedBundles(cache).bundles)
    /\ fetch' = "none"
    /\ phase' = "serving"
    /\ UNCHANGED <<corpus, used, matrices, cache>>

InitializeLoads(bs) ==
    /\ phase = "starting"
    /\ ~UsesCache(cache, UpdateInterval)
    /\ Indexed("initialize", bs)
    /\ cache' = downloadAllMatrices(cache, bs)
    /\ fetch' = "ok"
    /\ used' = used + TotalWeight(bs)
    /\ phase' = "serving"
    /\ UNCHANGED <<corpus, matrices>>

InitializeFallsBack(fetched) ==
    /\ phase = "starting"
    /\ ~UsesCache(cache, UpdateInterval)
    /\ loadCachedBundles(downloadAllMatrices_Failed(cache, fetched)).found
    /\ Indexed("initialize",
               loadCachedBundles(downloadAllMatrices_Failed(cache, fetched)).bundles)
    /\ cache' = downloadAllMatrices_Failed(cache, fetched)
    /\ fetch' = "failed"
    /\ used' = used + TotalWeight(fetched)
    /\ phase' = "serving"
    /\ UNCHANGED <<corpus, matrices>>

InitializeFails(fetched) ==
    /\ phase = "starting"
    /\ ~UsesCache(cache, UpdateInterval)
    /\ ~loadCachedBundles(downloadAllMatrices_Failed(cache, fetched)).found
    /\ FailedEarly("initialize")
    /\ cache' = downloadAllMatrices_Failed(cache, fetched)
    /\ fetch' = "failed"
    /\ used' = used + TotalWeight(fetched)
    /\ phase' = "serving"
    /\ UNCHANGED <<corpus, matrices>>

(***************************************************************************)
(* The mitre_update_data tool: await downloadAllMatrices, then             *)
(* store.loadFromBundles; any error is caught and reported as isError.     *)
(* While the call awaits the download other tool calls are served; the     *)
(* loop over the bundles runs without an await.  The download delivers new *)
(* bundles, or the unchanged dataset again, or raises at one matrix.       *)
(***************************************************************************)
UpdateDataBegins ==
    /\ phase = "serving"
    /\ nCalls < MaxLoads
    /\ phase' = "updating"
    /\ UNCHANGED <<store, loaded, corpus, lastCall, repeated, nCalls, used,
                   matrices, cache, fetch, queried>>

UpdateDataLoads(bs) ==
    /\ phase = "updating"
    /\ Indexed("mitre_update_data", bs)
    /\ cache' = downloadAllMatrices(cache, bs)
    /\ fetch' = "ok"
    /\ used' = used + TotalWeight(bs)
    /\ phase' = "serving"
    /\ UNCHANGED <<corpus, matrices>>

UpdateDataLoadsAgain ==
    /\ phase = "updating"
    /\ Len(lastCall.bundles) = Len(matrices)
    /\ Indexed("mitre_update_data", lastCall.bundles)
    /\ cache' = downloadAllMatrices(cache, lastCall.bundles)
    /\ fetch' = "ok"
    /\ phase' = "serving"
    /\ UNCHANGED <<corpus, used, matrices>>

UpdateDataDownloadFails(fetched) ==
    /\ phase = "updating"
    /\ FailedEarly("mitre_update_data")
    /\ cache' = downloadAllMatrices_Failed(cache, fetched)
    /\ fetch' = "failed"
    /\ used' = used + TotalWeight(fetched)
    /\ phase' = "serving"
    /\ UNCHANGED <<corpus, matrices>>

(***************************************************************************)
(* A tool call that runs a query method of the store, served once main has *)
(* registered the tools, also while a mitre_update_data call awaits its    *)
(* download.  No query method assigns to a field of the store or calls     *)
(* set, push or sort on one: getAllTactics sorts a copy of the map's       *)
(* values, the listings and searches filter copies.                        *)
(***************************************************************************)
QueryKinds == {"lookup", "listing", "search", "composite", "statistics"}

\* AfterQuery with getAllTactics sorting the tactics map itself
AfterQuery_SortsInPlace(s, kind) ==
    IF kind = "listing"
    THEN [s EXCEPT !.tactics =
             [i \in 1..Len(@) |-> [key |-> SortByOrder(MapValues(@))[i].id,
                                   value |-> SortByOrder(MapValues(@))[i]]]]
    ELSE s

\* the store after a query of the kind ran on store s
AfterQuery(s, kind) == s

Query(kind) ==
    /\ phase \in {"serving", "updating"}
    /\ store' = AfterQuery(store, kind)
    /\ queried' = TRUE
    /\ UNCHANGED <<loaded, phase, corpus, lastCall, repeated, nCalls, used,
                   matrices, cache, fetch>>

\* the bundles of the matrices fetched before a download raised
FetchedBeforeFailure(c, w, n) == UNION {Downloads[c][w][k] : k \in 0..(n - 1)}

Next ==
    \/ \E w \in 0..(MaxObjs - used) : \E bs \in Loads[corpus][w] : LoadFromBundles(bs)
    \/ LoadFromBundlesAgain
    \/ \E env \in Environments(corpus) : LoadConfig(env)
    \/ InitializeFromCache
    \/ \E w \in 0..(MaxObjs - used) :
          \E bs \in Downloads[corpus][w][Len(matrices)] : InitializeLoads(bs)
    \/ \E w \in 0..(MaxObjs - used) :
          \E bs \in FetchedBeforeFailure(corpus, w, Len(matrices)) : InitializeFallsBack(bs)
    \/ \E w \in 0..(MaxObjs - used) :
          \E bs \in FetchedBeforeFailure(corpus, w, Len(matrices)) : InitializeFails(bs)
    \/ \E kind \in QueryKinds : Query(kind)
    \/ UpdateDataBegins
    \/ \E w \in 0..(MaxObjs - used) :
          \E bs \in Downloads[corpus][w][Len(matrices)] : UpdateDataLoads(bs)
    \/ UpdateDataLoadsAgain
    \/ \E w \in 0..(MaxObjs - used) :
          \E bs \in FetchedBeforeFailure(corpus, w, Len(matrices)) : UpdateDataDownloadFails(bs)

Spec == Init /\ [][Next]_vars

\* the runs over the corpus of techniques that carry the searched fields
InitCampaign == Init /\ corpus = "campaign"

SpecCampaign == InitCampaign /\ [][Next]_vars

InitSearch == Init /\ corpus = "search"

SpecSearch == InitSearch /\ [][Next]_vars

(***************************************************************************)
(* The arguments the queries are asked with: every public id, name, alias  *)
(* and short name of the corpus in its letter-casings, and every STIX id.  *)
(***************************************************************************)
\* the strings that differ from s in letter case only
Casings(s) ==
    LET Letters == {UpperChar(s[i]) : i \in 1..Len(s)} \cup {LowerChar(s[i]) : i \in 1..Len(s)}
    IN  {x \in [1..Len(s) -> Letters] :
            \A i \in 1..Len(s) : x[i] \in {UpperChar(s[i]), LowerChar(s[i])}}

CaseVariants(s) ==
    IF Len(s) <= 3 THEN Casings(s) ELSE {s, toUpperCase(s), toLowerCase(s)}

StringsOf(o) ==
    {getExternalId(ArrOr(o, "external_references")), StrOr(o, "name"),
     StrOr(o, "x_mitre_shortname")}
    \cup {a \in Range(ArrOr(o, "aliases")) : IsString(a)}

QueryStrings ==
    [c \in CorpusNames |->
        UNION {CaseVariants(str) : str \in UNION {StringsOf(o) : o \in Corpus[c]}}]

StixIds ==
    [c \in CorpusNames |->
        {o.id : o \in Corpus[c]}
        \cup {RefOf(o, "source_ref") : o \in Corpus[c]}
        \cup {RefOf(o, "target_ref") : o \in Corpus[c]}]

(***************************************************************************)
(* What the queries return on a store s, for the arguments of corpus c.    *)
(***************************************************************************)
PointLookups(s, c) ==
    [getTechnique |-> [q \in QueryStrings[c] |-> getTechnique(s, q)],
     getTechniqueByStixId |-> [i \in StixIds[c] |-> getTechniqueByStixId(s, i)],
     getTactic |-> [q \in QueryStrings[c] |-> getTactic(s, q)],
     getGroup |-> [q \in QueryStrings[c] |-> getGroup(s, q)],
     getSoftware |-> [q \in QueryStrings[c] |-> getSoftware(s, q)],
     getMitigation |-> [q \in QueryStrings[c] |-> getMitigation(s, q)],
     getDataSource |-> [q \in QueryStrings[c] |-> getDataSource(s, q)]]

Listings(s) ==
    [getAllTechniques |-> [d \in BOOLEAN |-> getAllTechniques(s, d)],
     getAllTactics |-> getAllTactics(s),
     getAllGroups |-> [d \in BOOLEAN |-> getAllGroups(s, d)],
     getAllSoftware |-> [d \in BOOLEAN |-> getAllSoftware(s, d)],
     getAllMitigations |-> [d \in BOOLEAN |-> getAllMitigations(s, d)],
     getAllDataSources |-> getAllDataSources(s),
     getDataComponents |-> getDataComponents(s),
     getRelationships |-> getRelationships(s)]

Composites(s, c) ==
    [getGroupTechniques |-> [i \in StixIds[c] |-> getGroupTechniques(s, i)],
     getGroupSoftware |-> [i \in StixIds[c] |-> getGroupSoftware(s, i)],
     getSoftwareTechniques |-> [i \in StixIds[c] |-> getSoftwareTechniques(s, i)],
     getSoftwareGroups |-> [i \in StixIds[c] |-> getSoftwareGroups(s, i)],
     getMitigationsForTechnique |->
         [q \in QueryStrings[c] |-> getMitigationsForTechnique(s, q)],
     getTechniquesForMitigation |->
         [q \in QueryStrings[c] |-> getTechniquesForMitigation(s, q)],
     getComponentsForDataSource |->
         [i \in StixIds[c] |-> getComponentsForDataSource(s, i)],
     getTechniquesDetectedByComponent |->
         [i \in StixIds[c] |-> getTechniquesDetectedByComponent(s, i)]]

\* the same, each result as the set of its elements
CompositeSets(s, c) ==
    LET r == Composites(s, c)
    IN  [f \in DOMAIN r |-> [a \in DOMAIN r[f] |-> Range(r[f][a])]]

Contents(s, c) ==
    [lookups |-> PointLookups(s, c),
     listings |-> Listings(s),
     composites |-> Composites(s, c),
     stats |-> getStats(s)]

\* the call before this state completed
Completed == lastCall.op # "none" /\ ~lastCall.threw

(***************************************************************************)
(* Helpers of the properties.                                              *)
(***************************************************************************)
\* the entity carries the deprecated or the revoked flag
Flagged(e) == e.deprecated \/ e.revoked

Count(seq, Test(_)) == Len(SelectSeq(seq, Test))

\* the entities one parse function produced from the bundles of a call, in
\* the order in which the call indexed them
RECURSIVE ParsedAll(_, _)
ParsedAll(Parse(_), bs) ==
    IF bs = <<>> THEN <<>> ELSE Parse(Head(bs)) \o ParsedAll(Parse, Tail(bs))

\* es[i] is the last entity of es with its public id, and not the only one
LastOfSeveral(es, i) ==
    /\ \E j \in 1..Len(es) : j # i /\ es[j].id = es[i].id
    /\ \A j \in (i + 1)..Len(es) : es[j].id # es[i].id

WithId(listing, id) ==
    LET Same(e) == e.id = id
    IN  SelectSeq(listing, Same)

(***************************************************************************)
(* C1.  Every technique of the store is returned by getTechnique for its   *)
(* public id written in any letter-casing.                                 *)
(* Fails: the map is keyed by the public id as parsed, the query is        *)
(* upper-cased, so a public id with a lower-case letter is never found.    *)
(***************************************************************************)
C1_RoundTripAnyCasing ==
    \A t \in Range(MapValues(store.techniques)) :
        \A x \in Casings(t.id) : getTechnique(store, x) = <<t>>

(***************************************************************************)
(* C2 as claimed.  After a completed load every entity parsed from its     *)
(* bundles is in the default listing of its kind when it carries neither   *)
(* flag, and otherwise absent from it and present in the listing that      *)
(* includes deprecated entities.                                           *)
(* Fails: an entity is replaced by a later one with the same public id.    *)
(***************************************************************************)
FlagRule(es, default, all) ==
    \A e \in Range(es) :
        IF ~Flagged(e)
        THEN e \in Range(default)
        ELSE e \notin Range(default) /\ e \in Range(all)

C2_ParsedEntitiesListed ==
    Completed =>
        /\ FlagRule(ParsedAll(parseTechniques, lastCall.bundles),
                    getAllTechniques(store, FALSE), getAllTechniques(store, TRUE))
        /\ FlagRule(ParsedAll(parseGroups, lastCall.bundles),
                    getAllGroups(store, FALSE), getAllGroups(store, TRUE))
        /\ FlagRule(ParsedAll(parseSoftware, lastCall.bundles),
                    getAllSoftware(store, FALSE), getAllSoftware(store, TRUE))
        /\ FlagRule(ParsedAll(parseMitigations, lastCall.bundles),
                    getAllMitigations(store, FALSE), getAllMitigations(store, TRUE))

(***************************************************************************)
(* C2 as amended.  Every entity the store holds under its public id (the   *)
(* one loaded last with that id) is in the default listing of its kind     *)
(* when it carries neither flag, and otherwise absent from it and present  *)
(* in the listing that includes deprecated entities.                       *)
(***************************************************************************)
C2_HeldEntitiesListed ==
    /\ FlagRule(MapValues(store.techniques),
                getAllTechniques(store, FALSE), getAllTechniques(store, TRUE))
    /\ FlagRule(MapValues(store.groups),
                getAllGroups(store, FALSE), getAllGroups(store, TRUE))
    /\ FlagRule(MapValues(store.software),
                getAllSoftware(store, FALSE), getAllSoftware(store, TRUE))
    /\ FlagRule(MapValues(store.mitigations),
                getAllMitigations(store, FALSE), getAllMitigations(store, TRUE))

\* a kind holds a flagged entity next to an unflagged one
C2_Witness ==
    /\ loaded
    /\ \E m \in {store.techniques, store.groups, store.software, store.mitigations} :
          /\ \E e \in Range(MapValues(m)) : Flagged(e)
          /\ \E e \in Range(MapValues(m)) : ~Flagged(e)

(***************************************************************************)
(* C3.  After a completed load the store answers every query as a fresh    *)
(* store that was given only the bundles of that load.                     *)
(* Fails: a load adds to the maps and lists and removes nothing.           *)
(***************************************************************************)
C3_ReloadReplaces ==
    Completed =>
        Contents(store, corpus)
            = Contents(IndexBundles(EmptyStore, lastCall.bundles).store, corpus)

(***************************************************************************)
(* C4.  A load that is given the bundles of the completed load right       *)
(* before it changes the result of no point lookup, and changes no         *)
(* composite query's result as a set.                                      *)
(***************************************************************************)
C4_ReloadIdempotent ==
    [][(repeated' /\ nCalls' = nCalls + 1) =>
          /\ PointLookups(store', corpus) = PointLookups(store, corpus)
          /\ CompositeSets(store', corpus) = CompositeSets(store, corpus)]_vars

\* the same bundles were loaded twice, and lookups and composites find data
C4_Witness ==
    /\ repeated
    /\ \E q \in QueryStrings[corpus] : getTechnique(store, q) # <<>>
    /\ \E q \in QueryStrings[corpus] : getGroup(store, q) # <<>>
    /\ \E i \in StixIds[corpus] : getGroupTechniques(store, i) # <<>>

(***************************************************************************)
(* C5.  A load call that ends with an error leaves the index maps, the     *)
(* lists and the loaded flag as they were before the call.                 *)
(* Fails: what was indexed before the error stays in the store.            *)
(***************************************************************************)
C5_FailedLoadKeepsNothing ==
    [][(nCalls' = nCalls + 1 /\ lastCall'.threw) =>
          (store' = store /\ loaded' = loaded)]_vars

(***************************************************************************)
(* C6.  While the store is not loaded every query answers as the empty     *)
(* store: no entity, empty sequences, zero counts.                         *)
(* Fails after a load that raised part-way (C5).                           *)
(***************************************************************************)
C6_UnloadedIsEmpty ==
    ~loaded => Contents(store, corpus) = Contents(EmptyStore, corpus)

(***************************************************************************)
(* C7.  The loaded flag is false at first; it changes only from false to   *)
(* true, and only in a step in which initialize or loadFromBundles (also   *)
(* when called by mitre_update_data) completes without an error.           *)
(***************************************************************************)
C7_LoadedOnlyByCompletedLoad ==
    /\ ~loaded
    /\ [][(loaded' # loaded) =>
             /\ ~loaded /\ loaded'
             /\ nCalls' = nCalls + 1
             /\ lastCall'.op \in {"initialize", "loadFromBundles", "mitre_update_data"}
             /\ ~lastCall'.threw]_vars

\* the flag is still set after a later load that ended with an error
C7_Witness == loaded /\ lastCall.threw /\ nCalls >= 2

(***************************************************************************)
(* C8 as claimed.  For every "uses" relationship of the store from A to B, *)
(* both resolved by the internal-id maps, B is in A's used-entities query  *)
(* and A is in B's using-entities query as often as the relationship list  *)
(* holds the edge.                                                         *)
(* Fails: a deprecated or revoked technique is dropped from the result.    *)
(***************************************************************************)
UsesEdge(r, a, b) ==
    r.sourceRef = a /\ r.targetRef = b /\ r.relationshipType = "uses"

EdgeCount(a, b) ==
    LET Same(r) == UsesEdge(r, a, b)
    IN  Count(store.relationships, Same)

TimesTechnique(result, t) ==
    LET Is(x) == x.technique = t
    IN  Count(result, Is)

TimesSoftware(result, sw) ==
    LET Is(x) == x.software = sw
    IN  Count(result, Is)

TimesGroup(result, g) ==
    LET Is(x) == x.group = g
    IN  Count(result, Is)

\* onlyCurrent: restrict each conclusion to an entity without flags
UsesSymmetry(onlyCurrent) ==
    \A r \in Range(store.relationships) :
        r.relationshipType = "uses" =>
            LET a == r.sourceRef
                b == r.targetRef
                n == EdgeCount(a, b)
                gA == MapGet(store.groupsByStixId, a)
                sA == MapGet(store.softwareByStixId, a)
                tB == MapGet(store.techniquesByStixId, b)
                sB == MapGet(store.softwareByStixId, b)
                Covered(e) == onlyCurrent => ~Flagged(e)
            IN  /\ (gA # <<>> /\ tB # <<>> /\ Covered(tB[1])) =>
                       TimesTechnique(getGroupTechniques(store, a), tB[1]) = n
                /\ (sA # <<>> /\ tB # <<>> /\ Covered(tB[1])) =>
                       TimesTechnique(getSoftwareTechniques(store, a), tB[1]) = n
                /\ (gA # <<>> /\ sB # <<>> /\ Covered(sB[1])) =>
                       TimesSoftware(getGroupSoftware(store, a), sB[1]) = n
                /\ (gA # <<>> /\ sB # <<>> /\ Covered(gA[1])) =>
                       TimesGroup(getSoftwareGroups(store, b), gA[1]) = n

C8_UsesSymmetric == UsesSymmetry(FALSE)

(***************************************************************************)
(* C8 as amended.  For every "uses" relationship of the store from A to B, *)
(* both resolved by the internal-id maps: when B is neither deprecated nor *)
(* revoked, B is in A's used-entities query, and when A is neither         *)
(* deprecated nor revoked, A is in B's using-entities query, each as often *)
(* as the relationship list holds the edge.                                *)
(***************************************************************************)
C8_UsesSymmetricCurrent == UsesSymmetry(TRUE)

\* an edge between two unflagged entities of the store, in each direction
C8_Witness ==
    /\ loaded
    /\ \E r \in Range(store.relationships) :
          /\ r.relationshipType = "uses"
          /\ LET gA == MapGet(store.groupsByStixId, r.sourceRef)
                 sA == MapGet(store.softwareByStixId, r.sourceRef)
                 tB == MapGet(store.techniquesByStixId, r.targetRef)
                 sB == MapGet(store.softwareByStixId, r.targetRef)
             IN  \/ gA # <<>> /\ tB # <<>> /\ ~Flagged(gA[1]) /\ ~Flagged(tB[1])
                 \/ gA # <<>> /\ sB # <<>> /\ ~Flagged(gA[1]) /\ ~Flagged(sB[1])
                 \/ sA # <<>> /\ tB # <<>> /\ ~Flagged(sA[1]) /\ ~Flagged(tB[1])

(***************************************************************************)
(* C9.  No composite query returns an entity that carries the deprecated   *)
(* or the revoked flag.                                                    *)
(* Fails: getGroupSoftware and getSoftwareGroups do not test the flags.    *)
(***************************************************************************)
C9_CompositesDropFlagged ==
    /\ \A i \in StixIds[corpus] :
          /\ \A x \in Range(getGroupTechniques(store, i)) : ~Flagged(x.technique)
          /\ \A x \in Range(getSoftwareTechniques(store, i)) : ~Flagged(x.technique)
          /\ \A x \in Range(getGroupSoftware(store, i)) : ~Flagged(x.software)
          /\ \A x \in Range(getSoftwareGroups(store, i)) : ~Flagged(x.group)
          /\ \A t \in Range(getTechniquesDetectedByComponent(store, i)) : ~Flagged(t)
    /\ \A q \in QueryStrings[corpus] :
          /\ \A x \in Range(getMitigationsForTechnique(store, q)) : ~Flagged(x.mitigation)
          /\ \A x \in Range(getTechniquesForMitigation(store, q)) : ~Flagged(x.technique)

(***************************************************************************)
(* C10.  After a completed load, of the entities of one kind that it       *)
(* parsed with the same public id, the last one indexed is the one the     *)
(* lookup by that id returns and the only one with that id in the full     *)
(* listing of the kind.                                                    *)
(* Fails for a public id with a lower-case letter: the lookup misses (C1). *)
(***************************************************************************)
LastWins(es, Lookup(_), listing) ==
    \A i \in 1..Len(es) :
        LastOfSeveral(es, i) =>
            /\ Lookup(es[i].id) = <<es[i]>>
            /\ WithId(listing, es[i].id) = <<es[i]>>

C10_LastLoadWins ==
    Completed =>
        LET bs == lastCall.bundles
            Technique(id) == getTechnique(store, id)
            Tactic(id) == getTactic(store, id)
            Group(id) == getGroup(store, id)
            Software(id) == getSoftware(store, id)
            Mitigation(id) == getMitigation(store, id)
            DataSource(id) == getDataSource(store, id)
        IN  /\ LastWins(ParsedAll(parseTechniques, bs), Technique,
                        getAllTechniques(store, TRUE))
            /\ LastWins(ParsedAll(parseTactics, bs), Tactic, getAllTactics(store))
            /\ LastWins(ParsedAll(parseGroups, bs), Group, getAllGroups(store, TRUE))
            /\ LastWins(ParsedAll(parseSoftware, bs), Software,
                        getAllSoftware(store, TRUE))
            /\ LastWins(ParsedAll(parseMitigations, bs), Mitigation,
                        getAllMitigations(store, TRUE))
            /\ LastWins(ParsedAll(parseDataSources, bs), DataSource,
                        getAllDataSources(store))

(***************************************************************************)
(* C11.  Every technique that parseTechniques produced for a completed     *)
(* load: a sub-technique has a parentId that is not empty and is its       *)
(* public id cut before the first "."; a public id with a "." makes a      *)
(* sub-technique; a technique that is not a sub-technique has no parentId. *)
(* Fails: an object with the sub-technique flag and no mitre-attack        *)
(* reference gets the empty public id and the empty parentId.              *)
(***************************************************************************)
\* the longest prefix of s without a "."
RECURSIVE BeforeFirstDot(_)
BeforeFirstDot(s) ==
    IF s = <<>> \/ Head(s) = "." THEN <<>> ELSE <<Head(s)>> \o BeforeFirstDot(Tail(s))

HasDot(s) == \E i \in 1..Len(s) : s[i] = "."

C11_SubtechniqueParent ==
    Completed =>
        \A t \in Range(ParsedAll(parseTechniques, lastCall.bundles)) :
            /\ t.isSubtechnique =>
                   /\ t.parentId # Null
                   /\ t.parentId # <<>>
                   /\ t.parentId = BeforeFirstDot(t.id)
            /\ HasDot(t.id) => t.isSubtechnique
            /\ ~t.isSubtechnique => t.parentId = Null

(***************************************************************************)
(* C12.  Every load call that ends without an error appends to the        *)
(* relationship list exactly the relationship objects of its bundles that  *)
(* are marked neither deprecated nor revoked, each with its source,        *)
(* target, type and description, and leaves the store, hence every         *)
(* composite query, as it is when the marked relationship objects are      *)
(* taken out of the bundles.                                               *)
(***************************************************************************)
MarkedRelationship(o) ==
    /\ o.type = "relationship"
    /\ \/ Has(o, "x_mitre_deprecated") /\ o.x_mitre_deprecated = TRUE
       \/ Has(o, "revoked") /\ o.revoked = TRUE

\* the relationship objects of a bundle that carry no mark, as the list keeps them
KeptRelationships(b) ==
    LET Unmarked(o) == o.type = "relationship" /\ ~MarkedRelationship(o)
        raw == SelectSeq(b.objects, Unmarked)
    IN  [i \in 1..Len(raw) |->
            [sourceRef |-> raw[i].source_ref,
             targetRef |-> raw[i].target_ref,
             relationshipType |-> raw[i].relationship_type,
             description |-> IF Has(raw[i], "description") THEN raw[i].description
                             ELSE <<>>]]

\* the bundle without its marked relationship objects
WithoutMarked(b) ==
    LET Other(o) == ~MarkedRelationship(o)
    IN  IF Has(b, "objects") THEN [b EXCEPT !.objects = SelectSeq(b.objects, Other)]
        ELSE b

C12_MarkedRelationshipsDropped ==
    [][(nCalls' = nCalls + 1 /\ ~lastCall'.threw) =>
          LET bs == lastCall'.bundles
              clean == [i \in 1..Len(bs) |-> WithoutMarked(bs[i])]
          IN  /\ getRelationships(store')
                    = getRelationships(store) \o ParsedAll(KeptRelationships, bs)
              /\ clean # bs => store' = IndexBundles(store, clean).store]_vars

\* a load gave a marked relationship between a group and a technique it holds
C12_Witness ==
    /\ Completed
    /\ \E i \in 1..Len(lastCall.bundles) :
          \E o \in Range(lastCall.bundles[i].objects) :
              /\ MarkedRelationship(o)
              /\ MapHas(store.groupsByStixId, o.source_ref)
              /\ MapHas(store.techniquesByStixId, o.target_ref)

(***************************************************************************)
(* C13.  A load call ends with an error only when it obtained no bundles   *)
(* or one of its bundles has no objects list: the parse functions and the  *)
(* indexing of their output raise for no object of a bundle whose objects  *)
(* are a list, whatever fields the object lacks.                           *)
(* Fails: a kill-chain phase without kill_chain_name raises in             *)
(* parseTechniques, and an alias that is not a string raises in            *)
(* indexBundle.                                                            *)
(***************************************************************************)
C13_ParsingNeverRaises ==
    lastCall.threw =>
        \/ lastCall.bundles = <<>>
        \/ \E i \in 1..Len(lastCall.bundles) : ~Has(lastCall.bundles[i], "objects")

(***************************************************************************)
(* searchTechniques: the filter sets asked of the store.                   *)
(***************************************************************************)
\* the set of records with, for each field f of fields, either no field f or
\* a value of fields[f]
RECURSIVE OptionalFields(_, _)
OptionalFields(fields, names) ==
    IF names = {} THEN {<<>>}
    ELSE LET f == CHOOSE n \in names : TRUE
             rest == OptionalFields(fields, names \ {f})
         IN  rest \cup {(f :> v) @@ r : v \in fields[f], r \in rest}

SearchOpts ==
    OptionalFields(
        [query |-> {<<>>, <<"c", "d">>, <<"t", "2">>},
         tactic |-> {<<>>, <<"E", "X">>},
         platform |-> {<<"W">>},
         dataSource |-> {<<>>, <<"p">>},
         isSubtechnique |-> BOOLEAN],
        {"query", "tactic", "platform", "dataSource", "isSubtechnique"})

\* one string is one of the elements; is a substring of one of the elements
OneOf(seq, x) == \E i \in 1..Len(seq) : seq[i] = x

OneOfFolded(seq, x) == \E i \in 1..Len(seq) : toLowerCase(seq[i]) = toLowerCase(x)

InOneOf(seq, x) == \E i \in 1..Len(seq) : includes(seq[i], x)

InOneOfFolded(seq, x) ==
    \E i \in 1..Len(seq) : includes(toLowerCase(seq[i]), toLowerCase(x))

KeywordIn(t, q) == InOneOfFolded(<<t.name, t.description, t.id>>, q)

(***************************************************************************)
(* C14 as claimed.  searchTechniques(opts) is the default listing          *)
(* restricted to the techniques that satisfy every filter present in opts: *)
(* query a case-insensitive substring of name, description or public id;   *)
(* tactic equal to one of the tactics; platform equal to one of the        *)
(* platforms; dataSource a substring of one of the data-source labels;     *)
(* isSubtechnique equal to the flag.                                       *)
(* Fails: tactic, platform and dataSource are compared without regard to   *)
(* letter case, and a filter that is the empty string is not applied.      *)
(***************************************************************************)
SatisfiesAsClaimed(t, opts) ==
    /\ Has(opts, "query") => KeywordIn(t, opts.query)
    /\ Has(opts, "tactic") => OneOf(t.tactics, opts.tactic)
    /\ Has(opts, "platform") => OneOf(t.platforms, opts.platform)
    /\ Has(opts, "dataSource") => InOneOf(t.dataSources, opts.dataSource)
    /\ Has(opts, "isSubtechnique") => t.isSubtechnique = opts.isSubtechnique

C14_SearchIsConjunction ==
    \A opts \in SearchOpts :
        LET Sat(t) == SatisfiesAsClaimed(t, opts)
        IN  searchTechniques(store, opts) = SelectSeq(getAllTechniques(store, FALSE), Sat)

(***************************************************************************)
(* C14 as amended.  The same with tactic and platform equal to an element  *)
(* without regard to letter case, dataSource a case-insensitive substring  *)
(* of a label, and a filter that is absent or the empty string imposing no *)
(* constraint; searchTechniques with no filter is the default listing.     *)
(***************************************************************************)
Present(opts, f) == Has(opts, f) /\ Len(opts[f]) > 0

SatisfiesFolded(t, opts) ==
    /\ Present(opts, "query") => KeywordIn(t, opts.query)
    /\ Present(opts, "tactic") => OneOfFolded(t.tactics, opts.tactic)
    /\ Present(opts, "platform") => OneOfFolded(t.platforms, opts.platform)
    /\ Present(opts, "dataSource") => InOneOfFolded(t.dataSources, opts.dataSource)
    /\ Has(opts, "isSubtechnique") => t.isSubtechnique = opts.isSubtechnique

C14_SearchIsFoldedConjunction ==
    /\ \A opts \in SearchOpts :
          LET Sat(t) == SatisfiesFolded(t, opts)
          IN  searchTechniques(store, opts)
                  = SelectSeq(getAllTechniques(store, FALSE), Sat)
    /\ searchTechniques(store, <<>>) = getAllTechniques(store, FALSE)

\* two filters together select some but not all techniques of the default
\* listing, and the store holds a deprecated technique that satisfies both
C14_Witness ==
    \E opts \in SearchOpts :
        /\ Present(opts, "tactic") /\ Present(opts, "platform")
        /\ searchTechniques(store, opts) # <<>>
        /\ Len(searchTechniques(store, opts)) < Len(getAllTechniques(store, FALSE))
        /\ \E t \in Range(getAllTechniques(store, TRUE)) :
              Flagged(t) /\ SatisfiesFolded(t, opts)

(***************************************************************************)
(* C15.  getAllTactics lists the tactics the store holds, each once, in    *)
(* kill-chain order: of two tactics whose short names are in the order     *)
(* table the one earlier in the table comes first, and a tactic whose      *)
(* short name is not in the table comes after every tactic whose short     *)
(* name is in it.                                                          *)
(***************************************************************************)
InTable(t) == ENTERPRISE_TACTIC_ORDER(t.shortName) # <<>>

TablePlace(t) == ENTERPRISE_TACTIC_ORDER(t.shortName)[1]

\* a may stand before b in the listing
MayPrecede(a, b) ==
    /\ (InTable(a) /\ InTable(b)) => TablePlace(a) <= TablePlace(b)
    /\ InTable(b) => InTable(a)

C15_WitnessUnknown ==
    LET held == MapValues(store.tactics)
    IN  Len(held) = 2 /\ ~InTable(held[1]) /\ InTable(held[2])

(***************************************************************************)
(* C16.  getStats counts, for techniques, groups, software and             *)
(* mitigations, the entities of the default listing, which are the         *)
(* entities the store holds that are neither deprecated nor revoked, and   *)
(* for relationships every element of the relationship list.               *)
(***************************************************************************)
\* the number of entries of a map whose entity carries no flag
Unflagged(m) == Cardinality({i \in 1..Len(m) : ~Flagged(m[i].value)})

C16_StatsCountDefaultListings ==
    LET stats == getStats(store)
    IN  /\ stats.techniques = Len(getAllTechniques(store, FALSE))
        /\ stats.techniques = Unflagged(store.techniques)
        /\ stats.groups = Len(getAllGroups(store, FALSE))
        /\ stats.groups = Unflagged(store.groups)
        /\ stats.software = Len(getAllSoftware(store, FALSE))
        /\ stats.software = Unflagged(store.software)
        /\ stats.mitigations = Len(getAllMitigations(store, FALSE))
        /\ stats.mitigations = Unflagged(store.mitigations)
        /\ stats.relationships = Len(getRelationships(store))
        /\ stats.relationships = Len(store.relationships)

\* one kind holds a flagged entity that is not counted, another kind a
\* counted one, and the list holds a relationship
C16_Witness ==
    LET kinds == {store.techniques, store.groups, store.software, store.mitigations}
    IN  /\ \E m \in kinds : Unflagged(m) < Len(m)
        /\ \E m \in kinds : Unflagged(m) > 0
        /\ getStats(store).relationships > 0

(***************************************************************************)
(* The cache policy of initialize.                                         *)
(***************************************************************************)
\* the step is one run of store.initialize()
InitializeRuns == phase = "starting" /\ phase' = "serving"

\* a cached bundle exists for every configured matrix
EveryMatrixCached(c) ==
    \A i \in 1..Len(c.files) : c.files[i] # NoFile /\ ~Has(c.files[i][1], "unparseable")

\* the bundles of a cache in which every matrix is cached
CachedBundles(c) == [i \in 1..Len(c.files) |-> c.files[i][1]]

\* the metadata carries a date
Dated(c) == c.meta # <<>> /\ Has(c.meta[1], "valid") /\ c.meta[1].valid

(***************************************************************************)
(* C17.  A run of initialize that finds a cached bundle for every          *)
(* configured matrix and metadata not older than updateInterval indexes    *)
(* the cached bundles, downloads nothing and leaves the cache as it is; a  *)
(* run that finds a matrix without a cached bundle, or metadata older than *)
(* the interval, or no metadata, attempts a download, and indexes cached   *)
(* bundles only when that download failed.                                 *)
(***************************************************************************)
C17_CachePreferredWhenFresh ==
    [][InitializeRuns =>
          LET fresh == Dated(cache) /\ cache.meta[1].age <= UpdateInterval
              older == Dated(cache) /\ cache.meta[1].age > UpdateInterval
          IN  /\ (EveryMatrixCached(cache) /\ fresh) =>
                    /\ fetch' = "none"
                    /\ lastCall'.bundles = CachedBundles(cache)
                    /\ store' = IndexBundles(store, CachedBundles(cache)).store
                    /\ cache' = cache
              /\ (~EveryMatrixCached(cache) \/ older \/ cache.meta = <<>>) =>
                    /\ fetch' \in {"ok", "failed"}
                    /\ (fetch' = "ok" => cache'.meta = Stamp(0))]_vars

\* initialize indexed the techniques of a cache whose metadata is exactly
\* updateInterval old, without a download
C17_Witness ==
    /\ lastCall.op = "initialize"
    /\ fetch = "none"
    /\ loaded
    /\ cache.meta = Stamp(UpdateInterval)
    /\ Len(store.techniques) > 0

(***************************************************************************)
(* C18.  A run of initialize whose download fails while a cached bundle    *)
(* exists for every configured matrix ends without an error, with the      *)
(* loaded flag set and the store holding the bundles that were cached      *)
(* before the download was attempted.                                      *)
(* Fails: downloadMatrix writes the file of each matrix as soon as it is   *)
(* fetched, so a download that fails at a later matrix has replaced the    *)
(* cached files of the matrices before it; the fallback indexes those new  *)
(* files together with the old files of the remaining matrices, and raises *)
(* when a new file is no bundle with an objects list.                      *)
(***************************************************************************)
C18_FallbackLoadsCachedData ==
    [][(InitializeRuns /\ fetch' = "failed" /\ EveryMatrixCached(cache)) =>
          /\ ~lastCall'.threw
          /\ loaded'
          /\ lastCall'.bundles = CachedBundles(cache)
          /\ store' = IndexBundles(store, CachedBundles(cache)).store]_vars

(***************************************************************************)
(* Reloads and the queries served meanwhile.                               *)
(***************************************************************************)
\* a reload was begun and has not ended: initialize between the reading of
\* the configuration and its return, mitre_update_data while it awaits the
\* download
ReloadInProgress(ph) == ph \in {"starting", "updating"}

\* every bundle of bs parses, and every entity, data component and
\* relationship of bs is held by the store s, which was s0 before they were
\* indexed
HoldsWhole(s, s0, bs) ==
    /\ \A i \in 1..Len(bs) : Has(bs[i], "objects") /\ ~parseTechniqueThrows(bs[i])
    /\ \A t \in Range(ParsedAll(parseTechniques, bs)) :
          MapHas(s.techniquesByStixId, t.stixId) /\ MapHas(s.techniques, t.id)
    /\ \A t \in Range(ParsedAll(parseTactics, bs)) : MapHas(s.tactics, t.id)
    /\ \A g \in Range(ParsedAll(parseGroups, bs)) : MapHas(s.groupsByStixId, g.stixId)
    /\ \A m \in Range(ParsedAll(parseSoftware, bs)) : MapHas(s.softwareByStixId, m.stixId)
    /\ \A m \in Range(ParsedAll(parseMitigations, bs)) :
          MapHas(s.mitigationsByStixId, m.stixId)
    /\ \A d \in Range(ParsedAll(parseDataSources, bs)) :
          MapHas(s.dataSourcesByStixId, d.stixId)
    /\ s.dataComponents = s0.dataComponents \o ParsedAll(parseDataComponents, bs)
    /\ s.relationships = s0.relationships \o ParsedAll(parseRelationships, bs)

(***************************************************************************)
(* C19.  What a query can observe changes only in the step in which a load *)
(* call ends: while a reload is in progress the store and the loaded flag  *)
(* are those from before the reload, and the step that ends a reload       *)
(* without an error leaves a store that holds the whole of every bundle of *)
(* the reload.  No state has a store with part of a reload's bundles, or   *)
(* part of the entity kinds of a bundle, while that reload is in progress. *)
(***************************************************************************)
C19_ReloadObservedWhole ==
    [][/\ ReloadInProgress(phase') => (store' = store /\ loaded' = loaded)
       /\ store' # store =>
             /\ nCalls' = nCalls + 1
             /\ ~ReloadInProgress(phase')
       /\ (nCalls' = nCalls + 1 /\ ~lastCall'.threw) =>
             HoldsWhole(store', store, lastCall'.bundles)]_vars

\* a mitre_update_data call that followed initialize has ended without an
\* error, after awaiting its download, and indexed at least two objects
C19_Witness ==
    /\ phase = "serving"
    /\ lastCall.op = "mitre_update_data"
    /\ ~lastCall.threw
    /\ nCalls = 2
    /\ Len(lastCall.bundles) > 0
    /\ TotalWeight(lastCall.bundles) >= 2
    /\ Len(store.techniques) + Len(store.groups) + Len(store.dataSources) >= 2

(***************************************************************************)
(* Lookup by name or alias.                                                *)
(***************************************************************************)
\* the name of an entity and, for a group or a software, its aliases that
\* are strings
NamesOf(e) ==
    {e.name} \cup (IF Has(e, "aliases") THEN {a \in Range(e.aliases) : IsString(a)}
                   ELSE {})

\* the entities of one kind that its three maps retain
Retained(primary, byStixId, byName) ==
    Range(MapValues(primary)) \cup Range(MapValues(byStixId))
        \cup Range(MapValues(byName))

Carries(e, x) == \E n \in NamesOf(e) : toLowerCase(n) = toLowerCase(x)

\* every entity e the primary map holds is what Lookup returns for each of
\* its names in each letter-casing; onlyUnambiguous: unless another retained
\* entity carries the name or has it, upper-cased, as public id
FoundByName(primary, byStixId, byName, Lookup(_), onlyUnambiguous) ==
    \A e \in Range(MapValues(primary)) :
        \A n \in NamesOf(e) :
            \A x \in CaseVariants(n) :
                (onlyUnambiguous =>
                    \A o \in Retained(primary, byStixId, byName) \ {e} :
                        ~Carries(o, x) /\ o.id # toUpperCase(x))
                => Lookup(x) = <<e>>

NameLookups(onlyUnambiguous) ==
    LET Group(x) == getGroup(store, x)
        Software(x) == getSoftware(store, x)
        DataSource(x) == getDataSource(store, x)
    IN  /\ FoundByName(store.groups, store.groupsByStixId, store.groupsByName,
                       Group, onlyUnambiguous)
        /\ FoundByName(store.software, store.softwareByStixId, store.softwareByName,
                       Software, onlyUnambiguous)
        /\ FoundByName(store.dataSources, store.dataSourcesByStixId,
                       store.dataSourcesByName, DataSource, onlyUnambiguous)

TechniquesWithId(s, q) ==
    {t \in Range(MapValues(s.techniques)) : toLowerCase(t.id) = toLowerCase(q)}

\* one pair for each 'mitigates' relationship that targets t and whose
\* source resolves to a mitigation without a flag, in the order of the list
MitigationPairs(s, t) ==
    LET Counts(r) ==
            /\ r.relationshipType = "mitigates"
            /\ r.targetRef = t.stixId
            /\ MapHas(s.mitigationsByStixId, r.sourceRef)
            /\ ~Flagged(MapGet(s.mitigationsByStixId, r.sourceRef)[1])
        edges == SelectSeq(s.relationships, Counts)
    IN  [i \in 1..Len(edges) |->
            [mitigation |-> MapGet(s.mitigationsByStixId, edges[i].sourceRef)[1],
             description |-> edges[i].description]]

(***************************************************************************)
(* C21.  For every id, getMitigationsForTechnique(id) is empty when the    *)
(* store holds no technique whose public id is id in some casing, and      *)
(* otherwise is, for such a technique t, exactly one pair per 'mitigates'  *)
(* relationship that targets t's STIX id and whose source resolves to a    *)
(* mitigation that is neither deprecated nor revoked, with the description *)
(* of the relationship.                                                    *)
(* Fails: a technique whose public id is not in upper case is stored under *)
(* the id as written and is never found by the upper-cased argument (C1),  *)
(* so the query answers with the empty sequence although the technique is  *)
(* held and mitigated.                                                     *)
(***************************************************************************)
C21_MitigationsOfTechnique ==
    \A q \in QueryStrings[corpus] :
        IF TechniquesWithId(store, q) = {}
        THEN getMitigationsForTechnique(store, q) = <<>>
        ELSE \E t \in TechniquesWithId(store, q) :
                getMitigationsForTechnique(store, q) = MitigationPairs(store, t)

(***************************************************************************)
(* Groups matching a set of observed techniques.                           *)
(***************************************************************************)
\* the technique id lists the tools are called with
ObservedInputs ==
    {<<<<"T", "1">>>>, <<<<"T", "2">>>>, <<<<"t", "3">>>>, <<<<"T", "9">>>>,
     <<<<"T", "1">>, <<"T", "2">>>>, <<<<"T", "2">>, <<"T", "3">>>>,
     <<<<"T", "1">>, <<"T", "1">>>>, <<<<"T", "1">>, <<"T", "9">>>>,
     <<<<"T", "1">>, <<"T", "2">>, <<"T", "3">>>>}

\* group g uses the technique with public id x: a 'uses' relationship leads
\* from g to a technique with that id that is neither deprecated nor revoked
UsesTechnique(s, g, x) ==
    \E r \in Range(s.relationships) :
        /\ r.relationshipType = "uses"
        /\ r.sourceRef = g.stixId
        /\ MapHas(s.techniquesByStixId, r.targetRef)
        /\ ~Flagged(MapGet(s.techniquesByStixId, r.targetRef)[1])
        /\ MapGet(s.techniquesByStixId, r.targetRef)[1].id = x

\* 100 * n / d rounded to the nearest integer, halves upwards
Rounded(n, d) ==
    CHOOSE k \in 0..(100 * n + 1) :
        2 * d * k <= 200 * n + d /\ 200 * n + d < 2 * d * (k + 1)

\* the score of group g against the observed set
OverlapOf(s, g, observed) ==
    Rounded(Cardinality({x \in observed : UsesTechnique(s, g, x)}), Cardinality(observed))

\* the ids observed by each tool: the upper-cased arguments, and the ids of
\* the techniques the arguments resolve to
OverlapObserved(ts) == {toUpperCase(ts[i]) : i \in 1..Len(ts)}

ProfileObserved(s, ts) ==
    {t.id : t \in UNION {Range(getTechnique(s, ts[i])) : i \in 1..Len(ts)}}

(***************************************************************************)
(* C22.  In the matches of mitre_technique_overlap({techniques}) and in    *)
(* the likelyGroups of mitre_campaign_profile, the overlapScore of a group *)
(* is 100 times the number of observed techniques the group uses, divided  *)
(* by the number of distinct observed techniques, rounded; it is at most   *)
(* 100.                                                                    *)
(* Fails: the score counts the 'uses' relationships that lead to an        *)
(* observed technique, not the observed techniques; a relationship that is *)
(* in the list twice gives a score above 100.                              *)
(***************************************************************************)
C22_OverlapScoreIsShare ==
    \A ts \in ObservedInputs :
        /\ \A m \in Range(mitre_technique_overlap(store, ts)) :
              /\ m.overlapScore <= 100
              /\ \E g \in Range(getAllGroups(store, FALSE)) :
                    /\ g.id = m.id
                    /\ g.name = m.name
                    /\ m.overlapScore = OverlapOf(store, g, OverlapObserved(ts))
        /\ \A m \in Range(mitre_campaign_profile(store, ts).likelyGroups) :
              /\ m.overlapScore <= 100
              /\ \E g \in Range(getAllGroups(store, FALSE)) :
                    /\ Label(g.id, g.name) = m.group
                    /\ m.overlapScore = OverlapOf(store, g, ProfileObserved(store, ts))

(***************************************************************************)
(* Primary and secondary indices.                                          *)
(***************************************************************************)
\* every entity held by the secondary map is the entity the primary map
\* holds under its public id
Agrees(secondary, primary) ==
    \A i \in 1..Len(secondary) :
        MapGet(primary, secondary[i].value.id) = <<secondary[i].value>>

(***************************************************************************)
(* C23.  In every state, each entity held by an internal-id map, by a      *)
(* name/alias map or by the short-name map of the tactics is the entity    *)
(* the primary map of its kind holds under the entity's public id.         *)
(* Fails: an object that arrives with the public id of an entity already   *)
(* held but with another internal id (or another name) replaces the entry  *)
(* of the primary map only; the entry of the earlier entity stays in the   *)
(* secondary map, so getTechniqueByStixId and the by-name lookups return   *)
(* an entity that is in no listing.                                        *)
(***************************************************************************)
C23_SecondaryAgreesWithPrimary ==
    /\ Agrees(store.techniquesByStixId, store.techniques)
    /\ Agrees(store.tacticsByShortName, store.tactics)
    /\ Agrees(store.groupsByStixId, store.groups)
    /\ Agrees(store.groupsByName, store.groups)
    /\ Agrees(store.softwareByStixId, store.software)
    /\ Agrees(store.softwareByName, store.software)
    /\ Agrees(store.mitigationsByStixId, store.mitigations)
    /\ Agrees(store.dataSourcesByStixId, store.dataSources)
    /\ Agrees(store.dataSourcesByName, store.dataSources)

(***************************************************************************)
(* Queries between two loads.                                              *)
(***************************************************************************)
\* the step is a store query of a tool call: the server stays in its phase
\* and no load call begins or ends
QueryStep == queried' /\ phase' = phase /\ nCalls' = nCalls /\ lastCall' = lastCall

\* the values of the tactics map are not in kill-chain order
TacticsOutOfOrder(s) == getAllTactics(s) # MapValues(s.tactics)

(***************************************************************************)
(* C24.  A lookup, listing, search, composite or statistics operation of   *)
(* the store leaves every index map, the relationship list and the loaded  *)
(* flag as they were: in every step that runs a query and neither begins   *)
(* nor ends a load, the store after the step is the store before it, so    *)
(* every query result, being a function of the store, is the same          *)
(* whatever queries ran before.                                            *)
(***************************************************************************)
C24_QueriesLeaveStoreUnchanged ==
    [][QueryStep => (store' = store /\ loaded' = loaded)]_vars

\* a query ran on a loaded store whose tactics map is not in kill-chain
\* order, the case in which sorting in place would show
C24_Witness ==
    /\ queried
    /\ loaded
    /\ TacticsOutOfOrder(store)
    /\ Len(getRelationships(store)) + Len(store.techniques) > 0

(***************************************************************************)
(* Search by technique and the 'uses' composites.                          *)
(***************************************************************************)
\* the public ids of the techniques the store holds, and one it may not hold
TechniqueIds ==
    {store.techniques[i].value.id : i \in 1..Len(store.techniques)}
        \cup {<<"T", "2">>}

\* a technique with public id T is among the techniques of the composite
AmongTechniques(result, T) == \E i \in 1..Len(result) : result[i].technique.id = T

\* e is returned by the search
Returned(result, e) == \E i \in 1..Len(result) : result[i] = e

\* the equivalence of C25 for the technique ids that satisfy Scope
SearchAgreesWithComposite(Scope(_)) ==
    \A T \in {x \in TechniqueIds : Scope(x)} :
        /\ \A g \in Range(getAllGroups(store, FALSE)) :
               Returned(searchGroups(store, [technique |-> T]), g)
                   <=> AmongTechniques(getGroupTechniques(store, g.stixId), T)
        /\ \A sw \in Range(getAllSoftware(store, FALSE)) :
               Returned(searchSoftware(store, [technique |-> T]), sw)
                   <=> AmongTechniques(getSoftwareTechniques(store, sw.stixId), T)

AnyId(T) == TRUE

(***************************************************************************)
(* C25.  In every state, for every group g of the default listing and      *)
(* every technique id T, searchGroups({technique: T}) returns g exactly    *)
(* when a technique with public id T is among getGroupTechniques(g.stixId),*)
(* and likewise for searchSoftware and getSoftwareTechniques.              *)
(* Fails: the search resolves T through the primary map and keeps every    *)
(* source of a 'uses' edge to that technique, also when the technique is   *)
(* deprecated or revoked, while the composite drops such a technique.      *)
(***************************************************************************)
C25_SearchByTechniqueAgrees == SearchAgreesWithComposite(AnyId)

(***************************************************************************)
(* The two 'mitigates' queries.                                            *)
(***************************************************************************)
\* m appears in the mitigations of technique t
MitigationOf(s, m, t) ==
    \E x \in Range(getMitigationsForTechnique(s, t.id)) : x.mitigation = m

\* t appears in the techniques of mitigation m
TechniqueOf(s, t, m) ==
    \E x \in Range(getTechniquesForMitigation(s, m.id)) : x.technique = t

\* the two queries are converse on the held pairs that satisfy Scope
Converse(Scope(_, _)) ==
    \A m \in Range(MapValues(store.mitigations)) :
        \A t \in Range(MapValues(store.techniques)) :
            Scope(m, t) => (MitigationOf(store, m, t) <=> TechniqueOf(store, t, m))

AnyPair(m, t) == TRUE

\* neither is deprecated or revoked, and each is the entity the store finds
\* under its public id and under its internal id
CurrentPair(m, t) ==
    /\ Current(m) /\ Current(t)
    /\ getMitigation(store, m.id) = <<m>>
    /\ MapGet(store.mitigationsByStixId, m.stixId) = <<m>>
    /\ getTechnique(store, t.id) = <<t>>
    /\ getTechniqueByStixId(store, t.stixId) = <<t>>

DownloadFails == nCalls' = nCalls + 1 /\ fetch' = "failed"

(***************************************************************************)
(* C27.  A download that raises leaves the cache as it was: in every step  *)
(* in which downloadAllMatrices raises, every cached bundle file and the   *)
(* metadata are the same after the step as before it.                      *)
(* Fails: downloadMatrix writes the file of a matrix as soon as it is      *)
(* fetched, so a download that raises at a later matrix has replaced the   *)
(* files of the matrices before it, and the cache holds bundles of two     *)
(* download rounds under the metadata of the older one.                    *)
(***************************************************************************)
C27_FailedDownloadKeepsCache == [][DownloadFails => cache' = cache]_vars

(***************************************************************************)
(* C28.  A cache whose metadata is missing, unreadable or carries no valid *)
(* lastUpdated date is stale: isCacheStale returns true for it, and a run  *)
(* of initialize that finds such a cache attempts a download instead of    *)
(* taking the cached bundles as fresh.                                     *)
(* Fails: for a lastUpdated that is no date, new Date(..).getTime() is NaN *)
(* and NaN > updateInterval * 1000 is false, so isCacheStale returns false *)
(* and initialize indexes the cache without a download.                    *)
(***************************************************************************)
C28_UndatedCacheIsStale ==
    [][(InitializeRuns /\ ~Dated(cache)) =>
          /\ isCacheStale(cache, UpdateInterval)
          /\ fetch' # "none"]_vars

(***************************************************************************)
(* Suggested next techniques.                                              *)
(***************************************************************************)
\* the groups of the first TopGroups matches of likelyGroups
TopMatched(s, ts) ==
    LET top == slice(mitre_campaign_profile(s, ts).likelyGroups, TopGroups)
    IN  {g \in Range(getAllGroups(s, FALSE)) :
            \E i \in 1..Len(top) : top[i].group = Label(g.id, g.name)}

\* the top groups that use an unobserved technique listed under the label
Contributing(s, ts, label) ==
    {g \in TopMatched(s, ts) :
        \E x \in Range(getGroupTechniques(s, g.stixId)) :
            /\ Label(x.technique.id, x.technique.name) = label
            /\ x.technique.id \notin ProfileObserved(s, ts)}

\* the suggestions name used, unobserved techniques and are listed by the
\* number of contributing groups, largest first
RankedByGroups(s, ts) ==
    LET sug == mitre_campaign_profile(s, ts).suggestedNextTechniques
    IN  /\ \A i \in 1..Len(sug) : Contributing(s, ts, sug[i]) # {}
        /\ \A i, j \in 1..Len(sug) :
               i < j => Cardinality(Contributing(s, ts, sug[i]))
                            >= Cardinality(Contributing(s, ts, sug[j]))

(***************************************************************************)
(* C29.  In every state and for every list of observed techniques, every   *)
(* suggested next technique of mitre_campaign_profile is used by at least  *)
(* one of the at most three top-overlapping groups and is not observed,    *)
(* and the suggestions are in non-increasing order of the number of        *)
(* distinct top groups that use them.                                      *)
(* Fails: the count of a technique grows by one for every 'uses'           *)
(* relationship of a top group that leads to it, so a technique one group  *)
(* is related to twice is counted like a technique two groups use, and is  *)
(* listed before it.                                                       *)
(***************************************************************************)
C29_SuggestionsRankedByGroups ==
    \A ts \in ObservedInputs : RankedByGroups(store, ts)

(***************************************************************************)
(* The order of the listings.                                              *)
(***************************************************************************)
\* the malware and tools of a bundle parsed in the order of its objects
parseSoftwareInObjectOrder(bundle) ==
    LET IsSoftware(o) == IsNamed(o, "malware") \/ IsNamed(o, "tool")
        raw == SelectSeq(bundle.objects, IsSoftware)
    IN  [i \in 1..Len(raw) |-> parseSoftwareObject(raw[i], raw[i].type)]

\* listing is a subsequence of found: its entities occur in found in the
\* order of the listing
RECURSIVE Subsequence(_, _)
Subsequence(listing, found) ==
    IF listing = <<>> THEN TRUE
    ELSE IF found = <<>> THEN FALSE
    ELSE IF Head(listing) = Head(found) THEN Subsequence(Tail(listing), Tail(found))
    ELSE Subsequence(listing, Tail(found))

\* the public ids of es, each once, in the order of their first occurrence
\* after the ids of seen
RECURSIVE FirstIds(_, _)
FirstIds(seen, es) ==
    IF es = <<>> THEN seen
    ELSE FirstIds(IF Head(es).id \in Range(seen) THEN seen ELSE Append(seen, Head(es).id),
                  Tail(es))

\* the listing after entities es were indexed into a map with values held:
\* one entity per public id at the place of the id's first discovery, the
\* entity being the last one discovered with the id
PlacedByFirstId(held, es) ==
    LET all == held \o es
        ids == FirstIds(<<>>, all)
    IN  [i \in 1..Len(ids) |->
            all[CHOOSE k \in 1..Len(all) :
                    /\ all[k].id = ids[i]
                    /\ \A j \in (k + 1)..Len(all) : all[j].id # ids[i]]]

\* the step is a load call that returned
LoadReturns == nCalls' = nCalls + 1 /\ ~lastCall'.threw

(***************************************************************************)
(* C30, as claimed.  After every load that returns, each of the listings   *)
(* of techniques, groups, software, mitigations and data sources gives its *)
(* entities in the order in which their objects were discovered: the       *)
(* entities held before, then those of the call's bundles in load order    *)
(* and in the order of the objects within each bundle.  Fails for software *)
(* (all malware of a bundle is indexed before its tools) and for an entity *)
(* whose public id was already held (it takes the place of the earlier     *)
(* entity).                                                                *)
(***************************************************************************)
C30_ListedInObjectOrder ==
    [][LoadReturns =>
          LET bs == lastCall'.bundles
          IN  /\ Subsequence(getAllTechniques(store', FALSE),
                             getAllTechniques(store, TRUE) \o ParsedAll(parseTechniques, bs))
              /\ Subsequence(getAllGroups(store', FALSE),
                             getAllGroups(store, TRUE) \o ParsedAll(parseGroups, bs))
              /\ Subsequence(getAllSoftware(store', FALSE),
                             getAllSoftware(store, TRUE)
                                 \o ParsedAll(parseSoftwareInObjectOrder, bs))
              /\ Subsequence(getAllMitigations(store', FALSE),
                             getAllMitigations(store, TRUE)
                                 \o ParsedAll(parseMitigations, bs))
              /\ Subsequence(getAllDataSources(store'),
                             getAllDataSources(store) \o ParsedAll(parseDataSources, bs))]_vars

(***************************************************************************)
(* C30.  After every load that returns, each listing gives one entity per  *)
(* public id, in the order in which the ids were first indexed: the ids    *)
(* held before, then those of the call's bundles in load order, within a   *)
(* bundle in the order of its objects, for software all malware before all *)
(* tools; the entity listed for an id is the last one indexed with it, and *)
(* the default listing is that listing without the deprecated and revoked  *)
(* entities.                                                               *)
(***************************************************************************)
C30_ListedInInsertionOrder ==
    [][LoadReturns =>
          LET bs == lastCall'.bundles
          IN  /\ getAllTechniques(store', TRUE)
                    = PlacedByFirstId(getAllTechniques(store, TRUE),
                                      ParsedAll(parseTechniques, bs))
              /\ getAllGroups(store', TRUE)
                    = PlacedByFirstId(getAllGroups(store, TRUE),
                                      ParsedAll(parseGroups, bs))
              /\ getAllSoftware(store', TRUE)
                    = PlacedByFirstId(getAllSoftware(store, TRUE),
                                      ParsedAll(parseSoftware, bs))
              /\ getAllMitigations(store', TRUE)
                    = PlacedByFirstId(getAllMitigations(store, TRUE),
                                      ParsedAll(parseMitigations, bs))
              /\ getAllDataSources(store')
                    = PlacedByFirstId(getAllDataSources(store),
                                      ParsedAll(parseDataSources, bs))
              /\ getAllTechniques(store', FALSE)
                    = SelectSeq(getAllTechniques(store', TRUE), Current)
              /\ getAllSoftware(store', FALSE)
                    = SelectSeq(getAllSoftware(store', TRUE), Current)]_vars

\* a load returned whose bundle holds a tool before a malware, and the
\* listing gives the malware first
C30_Witness ==
    /\ Completed
    /\ \E i \in 1..Len(lastCall.bundles) :
           LET os == lastCall.bundles[i].objects
           IN  \E j, k \in 1..Len(os) :
                   j < k /\ os[j].type = "tool" /\ os[k].type = "malware"
    /\ Len(getAllSoftware(store, FALSE)) = 2
    /\ getAllSoftware(store, FALSE)[1].type = "malware"

====
